---- MODULE Spec2Model ----
(***************************************************************************)
(* Noctum: the mutation executor (src/mutation/executor.rs), the daemon    *)
(* loop and the per-repository pipeline (src/daemon/mod.rs) and the store  *)
(* operations they use (src/db/mod.rs), as state machines.                 *)
(*                                                                         *)
(* Each subsystem has its own specification over the shared variables:     *)
(*   SpecExec    one call of execute_mutation_test                         *)
(*   SpecDaemon  Daemon::run with process_tasks                            *)
(*   SpecCycle   analyze_repository_parallel for one repository            *)
(*   SpecStage   one per-file fan-out stage with its endpoint workers      *)
(*   SpecMut     the file loop of run_mutation_testing                     *)
(***************************************************************************)
EXTENDS Integers, Sequences, FiniteSets, TLC

VARIABLES
    \* ---- execute_mutation_test ----
    e_pc,               \* position inside execute_mutation_test
    disk,               \* bytes of the target file on disk
    entry_content,      \* bytes of the target file when the call was entered
    original_content,   \* the local `original_content`
    current_mutation,   \* the local `current_mutation` (its replacements)
    mutated_content,    \* the local `mutated_content` of the current attempt
    attempt,            \* the loop variable `attempt`
    test_result,        \* the local `test_result`
    test_exit,          \* how the test command ended, and the LLM's reading
    commands,           \* history: builds, fix requests and test runs issued
    e_result,           \* what the call returned
    \* ---- DaemonHandle / Daemon ----
    status,             \* the AtomicU8 `status`
    should_stop,        \* the AtomicBool `should_stop`
    trigger_scan,       \* the AtomicBool `trigger_scan`
    d_pc,               \* position inside Daemon::run
    run_result,         \* what Daemon::run returned
    in_window,          \* the local `in_window` of Daemon::run
    cycle_kind,         \* which branch of Daemon::run called process_tasks
    prior_status,       \* history: `status` when the loop took its branch
    now_hour,           \* the local clock's hour
    schedule,           \* config.schedule: start_hour, end_hour
    \* ---- process_tasks ----
    p_pc,               \* position inside process_tasks
    p_result,           \* what process_tasks returned
    endpoints_enabled,  \* number of enabled endpoints in the configuration
    repositories,       \* the store's repositories: their `enabled` flags
    repo_idx,           \* index of the loop over enabled_repos
    repos_listed,       \* history: get_repositories succeeded in this cycle
    analysed,           \* history: repositories analysed in this cycle, and how
    db_status,          \* daemon_state.status in the store
    sleep_left,         \* seconds left of interruptible_sleep
    \* ---- one per-file fan-out stage and its workers ----
    file_data,          \* the stage's `file_data`: path and content hash
    analysis_rows,      \* the store's analysis_results rows, in id order
    rows0,              \* history: analysis_rows when the stage started
    queue,              \* the mpsc channel's buffered tasks
    tx_open,            \* the Sender `tx` has not been dropped
    s_pc,               \* position inside the stage function
    file_idx,           \* index of the loop over file_data
    tasks_sent,         \* the local `tasks_sent`
    s_result,           \* what the stage function returned
    w_pc,               \* per endpoint: position inside analysis_worker
    w_task,             \* per endpoint: the task the worker holds
    rx_lock,            \* the worker holding the receiver's mutex, or 0
    llm_calls,          \* history: generate calls issued, per path
    llm_mode,           \* the endpoints' LLM: "any", "ok" or "err"
    store_mode,         \* the store: "any" (calls may fail) or "ok"
    \* ---- analyze_repository_parallel ----
    a_pc,               \* position inside analyze_repository_parallel
    a_result,           \* what the call returned
    a_calls,            \* repositories analysed so far in this cycle
    repo_config,        \* the enable flags loaded from the workspace
    config_file,        \* history: the workspace's .noctum.toml when loaded
    has_context,        \* context_file_data is not empty
    workspaces,         \* the temporary directories that exist on disk
    temp_dir,           \* the TempDir the call owns, or 0
    ws_created,         \* history: temporary directories created so far
    st_pc,              \* per stage of phase 1: position of its future
    st_changed,         \* per stage of phase 1: the value it returned
    st_stored,          \* history, per stage: a worker stored a result row
    st_workers,         \* per stage and endpoint: the spawned worker task
    agg_pc,             \* per aggregation of phase 2: position
    agg_calls,          \* history: aggregation LLM calls issued
    any_changed,        \* the local `any_changed`
    \* ---- run_mutation_testing ----
    m_pc,               \* position inside run_mutation_testing
    m_result,           \* what the call returned
    m_files,            \* the source files enumerated, in order
    m_rules,            \* repo_config.mutation.rules, in configuration order
    valid_rules,        \* the local `valid_rules`, as indices into m_rules
    m_rule,             \* the rule found for the current file, or 0
    tested_under,       \* history: per path, the rules it was tested under
    m_idx,              \* index of the loop over the files
    m_left,             \* mutations of the current file not yet executed
    m_outcome,          \* outcome of the mutation test just executed
    mutation_rows,      \* the store's mutation_results rows, in id order
    mrows0,             \* history: mutation_rows when the call started
    gen_calls,          \* history: mutation-generation calls, per path
    \* ---- paths of the workspace copy ----
    t_pc,               \* position inside the collection of source files
    temp_repo_path,     \* temp_dir.path(), as path components
    original_repo_path, \* repo.path, as path components
    symlink,            \* the file system's symbolic link: from, to
    projects,           \* the roots of the local `projects`
    stored_paths,       \* history: the file_path values handed to the store
    \* ---- the workspace under the mutation tests of one repository ----
    q_pc,               \* position of the mutation loop and of the call it makes
    q_file,             \* the file of the mutation under test, or 0
    q_left,             \* mutations not yet executed
    q_attempt,          \* the loop variable `attempt` of the call
    ws_mutated,         \* the workspace files that differ from their copy
    children,           \* build and test commands still running
    \* ---- generate_single_diagram ----
    g_pc,               \* position inside generate_single_diagram
    g_result,           \* what the call returned
    g_endpoints,        \* the number of endpoints
    g_attempt,          \* the loop variable `attempt`
    g_ep,               \* index of the loop over the endpoints
    dot_code,           \* the local `dot_code`, or "none"
    last_error,         \* the local `last_error`, or "none"
    responses,          \* history: whether each LLM response was valid DOT
    diagram,            \* the stored diagram's DOT code: "none", "old" or new
    \* ---- one call of a function that only computes ----
    call_pc,            \* "idle", "called" or "returned"
    call_args,          \* the arguments of the call
    call_result,        \* what the call returned
    \* ---- the store (SQLite) ----
    repo_rows,          \* ids of the rows of table repositories
    analysis_results,   \* the rows of table analysis_results, in id order
    mutation_results,   \* the rows of table mutation_results, in id order
    diagrams,           \* the rows of table diagrams, in id order
    sqlite_sequence,    \* per table: the greatest id handed out so far
    now,                \* CURRENT_TIMESTAMP, in seconds
    db_pc,              \* position inside the store call studied
    db_args,            \* the arguments of that call
    db_result,          \* what that call returned
    \* ---- the shared Config and process_tasks' endpoints ----
    config_endpoints,   \* config.endpoints behind the RwLock
    endpoints,          \* the local `endpoints` of process_tasks
    n_pc,               \* position of process_tasks in its cycle
    n_cycles,           \* cycles started so far
    config_at_start,    \* history: config.endpoints when the cycle started
    used                \* history: endpoints the cycle has sent requests to

execVars == <<e_pc, disk, entry_content, original_content, current_mutation,
              mutated_content, attempt, test_result, test_exit, commands,
              e_result>>

daemonVars == <<status, should_stop, trigger_scan, d_pc, run_result, in_window,
                cycle_kind, prior_status, now_hour, schedule, p_pc, p_result,
                endpoints_enabled, repositories, repo_idx, repos_listed,
                analysed, db_status, sleep_left>>

stageVars == <<file_data, analysis_rows, rows0, queue, tx_open, s_pc, file_idx,
               tasks_sent, s_result, w_pc, w_task, rx_lock, llm_calls,
               llm_mode, store_mode>>

cycleVars == <<a_pc, a_result, a_calls, repo_config, config_file, has_context, workspaces,
               temp_dir, ws_created, st_pc, st_changed, st_stored, st_workers, agg_pc,
               agg_calls, any_changed>>

mutVars == <<m_pc, m_result, m_files, m_rules, valid_rules, m_rule,
             tested_under, m_idx, m_left, m_outcome, mutation_rows, mrows0,
             gen_calls>>

\* The daemon's variables but the stop flag, which every subsystem reads.
daemonOther == <<status, trigger_scan, d_pc, run_result, in_window, cycle_kind,
                 prior_status, now_hour, schedule, p_pc, p_result,
                 endpoints_enabled, repositories, repo_idx, repos_listed,
                 analysed, db_status, sleep_left>>

\* The environment's modes, which the stage and the mutation run read.
envVars == <<llm_mode, store_mode>>

pathVars == <<t_pc, temp_repo_path, original_repo_path, symlink, projects,
              stored_paths>>

\* The variables of the subsystems that no other subsystem reads.
seqVars == <<q_pc, q_file, q_left, q_attempt, ws_mutated, children>>
diagVars == <<g_pc, g_result, g_endpoints, g_attempt, g_ep, dot_code,
              last_error, responses, diagram>>
callVars == <<call_pc, call_args, call_result>>
storeVars == <<repo_rows, analysis_results, mutation_results, diagrams,
               sqlite_sequence, now, db_pc, db_args, db_result>>
endpointVars == <<config_endpoints, endpoints, n_pc, n_cycles, config_at_start,
                  used>>
moreVars == <<callVars, storeVars, endpointVars>>
restVars == <<pathVars, seqVars, diagVars, moreVars>>

\* The variables of the subsystems modelled first.
oldVars == <<execVars, daemonVars, stageVars, cycleVars, mutVars, pathVars,
             seqVars, diagVars>>

vars == <<execVars, daemonVars, stageVars, cycleVars, mutVars, restVars>>

\* What a step of one subsystem leaves alone.
ExecFrame == UNCHANGED <<daemonVars, stageVars, cycleVars, mutVars, restVars>>
DaemonFrame == UNCHANGED <<execVars, stageVars, cycleVars, mutVars, restVars>>
CycleFrame ==
    UNCHANGED <<execVars, daemonOther, should_stop, stageVars, mutVars,
                restVars>>
MutFrame ==
    UNCHANGED <<execVars, daemonOther, should_stop, cycleVars, file_data,
                analysis_rows, rows0, queue, tx_open, s_pc, file_idx,
                tasks_sent, s_result, w_pc, w_task, rx_lock, llm_calls,
                envVars, restVars>>
StageFrame ==
    UNCHANGED <<execVars, daemonOther, should_stop, cycleVars, mutVars,
                restVars>>
PathFrame ==
    UNCHANGED <<execVars, daemonVars, stageVars, cycleVars, mutVars, seqVars,
                diagVars, moreVars>>
SeqFrame ==
    UNCHANGED <<execVars, daemonVars, stageVars, cycleVars, mutVars, pathVars,
                diagVars, moreVars>>
DiagFrame ==
    UNCHANGED <<execVars, daemonVars, stageVars, cycleVars, mutVars, pathVars,
                seqVars, moreVars>>
CallFrame == UNCHANGED <<oldVars, storeVars, endpointVars>>
StoreFrame == UNCHANGED <<oldVars, callVars, endpointVars>>
EndpointFrame == UNCHANGED <<oldVars, callVars, storeVars>>

---------------------------------------------------------------------------
(* Text.  File content is a sequence of characters; NL and CR are the line *)
(* feed and the carriage return.                                           *)

NL == "NL"
CR == "CR"

Max(a, b) == IF a >= b THEN a ELSE b
Min(a, b) == IF a <= b THEN a ELSE b

\* usize::saturating_sub
SaturatingSub(a, b) == IF a >= b THEN a - b ELSE 0

\* str::contains: `find` occurs in `line` (the empty string occurs everywhere).
Contains(line, find) ==
    \E i \in 1..(Len(line) - Len(find) + 1) :
        SubSeq(line, i, i + Len(find) - 1) = find

\* Position of the first occurrence of `find` in `line`.
FirstIndex(line, find) ==
    CHOOSE i \in 1..(Len(line) - Len(find) + 1) :
        /\ SubSeq(line, i, i + Len(find) - 1) = find
        /\ \A j \in 1..(i - 1) : SubSeq(line, j, j + Len(find) - 1) # find

\* str::replacen(find, replace, 1): the first occurrence only.
Replacen1(line, find, replace) ==
    IF ~Contains(line, find) THEN line
    ELSE LET i == FirstIndex(line, find)
         IN  SubSeq(line, 1, i - 1) \o replace
                 \o SubSeq(line, i + Len(find), Len(line))

\* A line as str::lines yields it: without its "\n" and without a "\r"
\* that stood right before that "\n".
StripCR(cur) ==
    IF Len(cur) > 0 /\ cur[Len(cur)] = CR THEN SubSeq(cur, 1, Len(cur) - 1)
    ELSE cur

\* str::lines: split at "\n"; the final line ending is optional, so no
\* empty last line is produced for content that ends in "\n".
RECURSIVE LinesFrom(_, _)
LinesFrom(s, cur) ==
    IF s = <<>> THEN (IF cur = <<>> THEN <<>> ELSE <<cur>>)
    ELSE IF Head(s) = NL THEN <<StripCR(cur)>> \o LinesFrom(Tail(s), <<>>)
    ELSE LinesFrom(Tail(s), Append(cur, Head(s)))

Lines(content) == LinesFrom(content, <<>>)

\* [String]::join
RECURSIVE Join(_, _)
Join(lines, sep) ==
    IF lines = <<>> THEN <<>>
    ELSE IF Len(lines) = 1 THEN lines[1]
    ELSE lines[1] \o sep \o Join(Tail(lines), sep)

\* The value of a failed Result<String>.
ErrContent == [ok |-> FALSE, content |-> <<>>]
OkContent(c) == [ok |-> TRUE, content |-> c]

LINE_TOLERANCE == 3

\* apply_single_replacement
apply_single_replacement(content, replacement) ==
    LET lines      == Lines(content)
        line_count == Len(lines)
        ln         == replacement.line_number
        start_line == Max(SaturatingSub(ln, LINE_TOLERANCE), 1)
        end_line   == Min(ln + LINE_TOLERANCE, line_count)
        window     == {k \in start_line..end_line :
                           Contains(lines[k], replacement.find)}
        anywhere   == {k \in 1..line_count :
                           Contains(lines[k], replacement.find)}
        line_ending == IF Contains(content, <<CR, NL>>) THEN <<CR, NL>>
                       ELSE <<NL>>
    IN  IF ln = 0 \/ ln > line_count + LINE_TOLERANCE THEN ErrContent
        ELSE IF window = {} /\ anywhere = {} THEN ErrContent
        ELSE LET target_line ==
                     IF window # {}
                     THEN CHOOSE k \in window : \A j \in window : k <= j
                     ELSE CHOOSE k \in anywhere : \A j \in anywhere : k <= j
                 new_lines ==
                     [k \in 1..line_count |->
                         IF k = target_line
                         THEN Replacen1(lines[k], replacement.find,
                                        replacement.replace)
                         ELSE lines[k]]
             IN  OkContent(Join(new_lines, line_ending))

\* The stable sort of apply_replacements: by line_number, descending;
\* replacements with equal line numbers keep their order.
RECURSIVE InsertDesc(_, _)
InsertDesc(sorted, r) ==
    IF sorted = <<>> THEN <<r>>
    ELSE IF Head(sorted).line_number >= r.line_number
         THEN <<Head(sorted)>> \o InsertDesc(Tail(sorted), r)
         ELSE <<r>> \o sorted

RECURSIVE SortDesc(_)
SortDesc(reps) ==
    IF reps = <<>> THEN <<>>
    ELSE InsertDesc(SortDesc(SubSeq(reps, 1, Len(reps) - 1)), reps[Len(reps)])

RECURSIVE ApplyAll(_, _)
ApplyAll(content, sorted) ==
    IF sorted = <<>> THEN OkContent(content)
    ELSE LET r == apply_single_replacement(content, Head(sorted))
         IN  IF r.ok THEN ApplyAll(r.content, Tail(sorted)) ELSE ErrContent

\* apply_replacements
apply_replacements(content, replacements) ==
    IF replacements = <<>> THEN ErrContent
    ELSE ApplyAll(content, SortDesc(replacements))

\* The validation of fix_mutation_with_error: every raw replacement of the
\* LLM's answer must be in range, have a non-empty `find` different from
\* `replace` and be found in `code`; its line_number becomes the line found.
ValidateReplacement(code, raw) ==
    LET lines      == Lines(code)
        line_count == Len(lines)
        ln         == raw.line_number
        start_line == Max(SaturatingSub(ln, LINE_TOLERANCE), 1)
        end_line   == Min(ln + LINE_TOLERANCE, line_count)
        window     == {k \in start_line..end_line : Contains(lines[k], raw.find)}
        anywhere   == {k \in 1..line_count : Contains(lines[k], raw.find)}
    IN  IF ln = 0 \/ ln > line_count + LINE_TOLERANCE THEN [ok |-> FALSE, r |-> raw]
        ELSE IF raw.find = <<>> \/ raw.find = raw.replace THEN [ok |-> FALSE, r |-> raw]
        ELSE IF window = {} /\ anywhere = {} THEN [ok |-> FALSE, r |-> raw]
        ELSE LET actual_line ==
                     IF window # {}
                     THEN CHOOSE k \in window : \A j \in window : k <= j
                     ELSE CHOOSE k \in anywhere : \A j \in anywhere : k <= j
             IN  [ok |-> TRUE,
                  r  |-> [line_number |-> actual_line, find |-> raw.find,
                          replace |-> raw.replace]]

\* fix_mutation_with_error, given the LLM's parsed answer.
fix_mutation_with_error(code, raw_replacements) ==
    LET v == [k \in 1..Len(raw_replacements) |->
                  ValidateReplacement(code, raw_replacements[k])]
    IN  IF raw_replacements = <<>> THEN [ok |-> FALSE, replacements |-> <<>>]
        ELSE IF \E k \in 1..Len(v) : ~v[k].ok
             THEN [ok |-> FALSE, replacements |-> <<>>]
        ELSE [ok |-> TRUE, replacements |-> [k \in 1..Len(v) |-> v[k].r]]

---------------------------------------------------------------------------
(* The path variables when another subsystem is studied alone.             *)
PathIdle ==
    /\ t_pc = "idle"
    /\ temp_repo_path = <<>>
    /\ original_repo_path = <<>>
    /\ symlink = [from |-> <<>>, to |-> <<>>]
    /\ projects = {}
    /\ stored_paths = {}

\* The workspace variables when another subsystem is studied alone.
SeqIdle ==
    /\ q_pc = "idle"
    /\ q_file = 0
    /\ q_left = 0
    /\ q_attempt = 0
    /\ ws_mutated = {}
    /\ children = 0

\* The diagram variables when another subsystem is studied alone.
DiagIdle ==
    /\ g_pc = "idle"
    /\ g_result = "none"
    /\ g_endpoints = 0
    /\ g_attempt = 0
    /\ g_ep = 0
    /\ dot_code = "none"
    /\ last_error = "none"
    /\ responses = <<>>
    /\ diagram = "none"

\* No call of a computing function is studied.
CallIdle ==
    /\ call_pc = "idle"
    /\ call_args = <<>>
    /\ call_result = <<>>

\* The store when no store call is studied.
StoreIdle ==
    /\ repo_rows = {}
    /\ analysis_results = <<>>
    /\ mutation_results = <<>>
    /\ diagrams = <<>>
    /\ sqlite_sequence = <<>>
    /\ now = 0
    /\ db_pc = "idle"
    /\ db_args = <<>>
    /\ db_result = <<>>

\* The endpoint variables when another subsystem is studied alone.
EndpointIdle ==
    /\ config_endpoints = <<>>
    /\ endpoints = <<>>
    /\ n_pc = "idle"
    /\ n_cycles = 0
    /\ config_at_start = <<>>
    /\ used = {}

MoreIdle == CallIdle /\ StoreIdle /\ EndpointIdle

RestIdle == PathIdle /\ SeqIdle /\ DiagIdle /\ MoreIdle

---------------------------------------------------------------------------
(* The daemon's variables when another subsystem is studied alone.         *)
DaemonIdle ==
    /\ status = "Waiting"
    /\ should_stop = FALSE
    /\ trigger_scan = FALSE
    /\ d_pc = "idle"
    /\ run_result = "none"
    /\ in_window = FALSE
    /\ cycle_kind = "none"
    /\ prior_status = "none"
    /\ now_hour = 0
    /\ schedule = [start_hour |-> 0, end_hour |-> 0]
    /\ p_pc = "idle"
    /\ p_result = "none"
    /\ endpoints_enabled = 0
    /\ repositories = <<>>
    /\ repo_idx = 0
    /\ repos_listed = FALSE
    /\ analysed = {}
    /\ db_status = "idle"
    /\ sleep_left = 0

\* The stage's variables when another subsystem is studied alone.
StageIdle ==
    /\ file_data = <<>>
    /\ analysis_rows = <<>>
    /\ rows0 = <<>>
    /\ queue = <<>>
    /\ tx_open = FALSE
    /\ s_pc = "idle"
    /\ file_idx = 0
    /\ tasks_sent = 0
    /\ s_result = "none"
    /\ w_pc = <<>>
    /\ w_task = <<>>
    /\ rx_lock = 0
    /\ llm_calls = <<>>
    /\ llm_mode = "any"
    /\ store_mode = "any"

\* The cycle's variables when another subsystem is studied alone.
CycleIdle ==
    /\ a_pc = "idle"
    /\ a_result = "none"
    /\ a_calls = 0
    /\ repo_config = <<>>
    /\ config_file = <<>>
    /\ has_context = FALSE
    /\ workspaces = {}
    /\ temp_dir = 0
    /\ ws_created = 0
    /\ st_pc = <<>>
    /\ st_changed = <<>>
    /\ st_stored = <<>>
    /\ st_workers = <<>>
    /\ agg_pc = <<>>
    /\ agg_calls = 0
    /\ any_changed = FALSE

\* The mutation run's variables when another subsystem is studied alone.
MutIdle ==
    /\ m_pc = "idle"
    /\ m_result = "none"
    /\ m_files = <<>>
    /\ m_rules = <<>>
    /\ valid_rules = <<>>
    /\ m_rule = 0
    /\ tested_under = <<>>
    /\ m_idx = 0
    /\ m_left = 0
    /\ m_outcome = "none"
    /\ mutation_rows = <<>>
    /\ mrows0 = <<>>
    /\ gen_calls = <<>>

---------------------------------------------------------------------------
(* The file system.  tokio::fs::write creates (truncates) the file and     *)
(* then writes the bytes: a failed write leaves the old bytes (the open    *)
(* failed) or a proper prefix of the new bytes (the write failed).         *)

ProperPrefixes(c) == {SubSeq(c, 1, k) : k \in 0..(Len(c) - 1)}

WriteOutcomes(old, new) ==
    {[ok |-> TRUE, disk |-> new]}
        \cup {[ok |-> FALSE, disk |-> d] : d \in {old} \cup ProperPrefixes(new)}

\* revert_file: write the original content; if that fails, write it once
\* more and ignore the result.  The set of bytes the file can hold after.
revert_file(d, original) ==
    UNION {IF w1.ok THEN {w1.disk}
           ELSE {w2.disk : w2 \in WriteOutcomes(w1.disk, original)} :
           w1 \in WriteOutcomes(d, original)}

---------------------------------------------------------------------------
(* execute_mutation_test                                                   *)

MAX_COMPILE_RETRIES == 3

Rep(ln, f, r) == [line_number |-> ln, find |-> f, replace |-> r]

\* The file contents the executor is run on.
Contents ==
    { <<"a", "b", NL, "c", NL>>,      \* "ab\nc\n"
      <<"a", NL, "a">> }              \* "a\na", no final newline

\* The mutations the executor is called with.
Mutations ==
    { <<Rep(1, <<"a">>, <<"b">>)>>,
      <<Rep(2, <<"c">>, <<"a", "a">>)>>,
      <<Rep(1, <<"a">>, <<"c">>), Rep(2, <<"a">>, <<"b">>)>>,
      <<Rep(1, <<"z">>, <<"a">>)>>,
      <<Rep(9, <<"a">>, <<"b">>)>>,
      <<>> }

\* The replacement lists an LLM answers a fix request with.
FixResponses ==
    { <<Rep(2, <<"a">>, <<"c">>)>>,
      <<Rep(1, <<"b">>, <<>>)>>,
      <<Rep(1, <<"a">>, <<"a">>)>>,
      <<>> }

TestResults == {"Passed", "Failed", "CompileError", "Timeout"}

\* How the spawned test command can end: the spawn fails, waiting for it
\* fails, the timeout elapses, or it exits with a code (None when a signal
\* ended it).
TestExits == {"spawn_error", "wait_error", "timeout", "zero", "nonzero", "signal"}

\* What analyze_test_output can give back: an outcome string ("other" is any
\* string that is none of the four known ones) or an error.
Analyses == {"passed", "failed", "compile_error", "timeout", "other", "Err"}

NoExit == [exit |-> "none", analysis |-> "none"]

\* The match on exit_code that run_tests_with_command falls back to.
ExitCodeFallback(exit) ==
    CASE exit = "zero"    -> "Passed"
      [] exit = "nonzero" -> "Failed"
      [] exit = "signal"  -> "Timeout"

\* run_tests_with_command: the TestResult for an ending of the command and,
\* when the exit code is not 0, the LLM's reading of the output.
run_tests_with_command(exit, analysis) ==
    CASE exit = "spawn_error" -> "CompileError"
      [] exit = "wait_error"  -> "CompileError"
      [] exit = "timeout"     -> "Timeout"
      [] exit = "zero"        -> "Passed"
      [] OTHER ->
            CASE analysis = "passed"        -> "Passed"
              [] analysis = "failed"        -> "Failed"
              [] analysis = "compile_error" -> "CompileError"
              [] analysis = "timeout"       -> "Timeout"
              [] OTHER                      -> ExitCodeFallback(exit)

\* The LLM is asked about the output only for a command that exited with a
\* code other than 0.
AnalysesFor(exit) ==
    IF exit \in {"nonzero", "signal"} THEN Analyses ELSE {"none"}

\* `if attempt < MAX_COMPILE_RETRIES`: a failed build is followed by a fix
\* request.
CanRetry_Always(n) == TRUE
CanRetry(n) == n < MAX_COMPILE_RETRIES

\* The outcome execute_mutation_test derives from the test result.
OutcomeOf(tr) ==
    CASE tr = "Passed"       -> "survived"
      [] tr = "Failed"       -> "killed"
      [] tr = "CompileError" -> "compile_error"
      [] tr = "Timeout"      -> "timeout"

OkResult(outcome) == [kind |-> "Ok", outcome |-> outcome]
ErrResult == [kind |-> "Err", outcome |-> "none"]
NoResult == [kind |-> "none", outcome |-> "none"]

ExecIdle ==
    /\ e_pc = "idle"
    /\ disk = <<>>
    /\ entry_content = <<>>
    /\ original_content = <<>>
    /\ current_mutation = <<>>
    /\ mutated_content = <<>>
    /\ attempt = 0
    /\ test_result = "none"
    /\ test_exit = NoExit
    /\ commands = <<>>
    /\ e_result = NoResult

\* Entry: the call starts on a file and a mutation.
ExecInit ==
    /\ e_pc = "start"
    /\ disk \in Contents
    /\ entry_content = disk
    /\ original_content = <<>>
    /\ current_mutation \in Mutations
    /\ mutated_content = <<>>
    /\ attempt = 0
    /\ test_result = "none"
    /\ test_exit = NoExit
    /\ commands = <<>>
    /\ e_result = NoResult

\* read_to_string(file_path)?  (executor.rs 47-49)
ReadOriginal ==
    /\ ExecFrame
    /\ UNCHANGED <<test_exit, commands>>
    /\ e_pc = "start"
    /\ \/ /\ original_content' = disk
          /\ attempt' = 1
          /\ e_pc' = "apply"
          /\ UNCHANGED e_result
       \/ /\ e_result' = ErrResult
          /\ e_pc' = "done"
          /\ UNCHANGED <<original_content, attempt>>
    /\ UNCHANGED <<disk, entry_content, current_mutation, mutated_content,
                   test_result>>

\* The content every attempt applies its mutation to: `&original_content`,
\* read once before the loop.
AttemptBase_Reread == disk
AttemptBase == original_content

\* apply_replacements(&original_content, ...)  (executor.rs 57-71)
ApplyMutation ==
    /\ ExecFrame
    /\ UNCHANGED <<test_exit, commands>>
    /\ e_pc = "apply"
    /\ LET r == apply_replacements(AttemptBase, current_mutation)
       IN  IF r.ok
           THEN /\ mutated_content' = r.content
                /\ e_pc' = "write"
                /\ UNCHANGED e_result
           ELSE /\ e_result' = OkResult("compile_error")
                /\ e_pc' = "done"
                /\ UNCHANGED mutated_content
    /\ UNCHANGED <<disk, entry_content, original_content, current_mutation,
                   attempt, test_result>>

\* tokio::fs::write(file_path, &mutated_content)?  (executor.rs 74-76)
WriteMutated ==
    /\ ExecFrame
    /\ UNCHANGED <<test_exit, commands>>
    /\ e_pc = "write"
    /\ \E w \in WriteOutcomes(disk, mutated_content) :
          /\ disk' = w.disk
          /\ IF w.ok
             THEN e_pc' = "build" /\ UNCHANGED e_result
             ELSE e_pc' = "done" /\ e_result' = ErrResult
    /\ UNCHANGED <<entry_content, original_content, current_mutation,
                   mutated_content, attempt, test_result>>

\* run_build_command(...)  (executor.rs 79, 325-364)
RunBuild ==
    /\ ExecFrame
    /\ e_pc = "build"
    /\ \/ e_pc' = "test" /\ commands' = Append(commands, "build_ok")
       \/ e_pc' = "revert_build" /\ commands' = Append(commands, "build_err")
    /\ UNCHANGED test_exit
    /\ UNCHANGED <<disk, entry_content, original_content, current_mutation,
                   mutated_content, attempt, test_result, e_result>>

\* run_tests_with_command(...)  (executor.rs 82-89, 367-468)
RunTests ==
    /\ ExecFrame
    /\ e_pc = "test"
    /\ \E exit \in TestExits : \E analysis \in AnalysesFor(exit) :
          /\ test_exit' = [exit |-> exit, analysis |-> analysis]
          /\ test_result' = run_tests_with_command(exit, analysis)
    /\ commands' = Append(commands, "test")
    /\ e_pc' = "revert_test"
    /\ UNCHANGED <<disk, entry_content, original_content, current_mutation,
                   mutated_content, attempt, e_result>>

\* The Ok(()) arm after the tests: revert, then return the outcome
\* (executor.rs 91-129)
RevertAfterTest ==
    /\ ExecFrame
    /\ UNCHANGED <<test_exit, commands>>
    /\ e_pc = "revert_test"
    /\ disk' \in revert_file(disk, original_content)
    /\ e_result' = OkResult(OutcomeOf(test_result))
    /\ e_pc' = "done"
    /\ UNCHANGED <<entry_content, original_content, current_mutation,
                   mutated_content, attempt, test_result>>

\* The Err(compile_error) arm: revert, then retry or give up
\* (executor.rs 131-181, 185-201)
RevertAfterBuild ==
    /\ ExecFrame
    /\ UNCHANGED <<test_exit, commands>>
    /\ e_pc = "revert_build"
    /\ disk' \in revert_file(disk, original_content)
    /\ IF CanRetry(attempt)
       THEN e_pc' = "fix" /\ UNCHANGED e_result
       ELSE e_pc' = "done" /\ e_result' = OkResult("compile_error")
    /\ UNCHANGED <<entry_content, original_content, current_mutation,
                   mutated_content, attempt, test_result>>

\* fix_mutation_with_error(...).await  (executor.rs 150-173)
FixMutation ==
    /\ ExecFrame
    /\ e_pc = "fix"
    /\ commands' = Append(commands, "fix")
    /\ UNCHANGED test_exit
    /\ \/ \E raw \in FixResponses :
             LET f == fix_mutation_with_error(entry_content, raw)
             IN  IF f.ok
                 THEN /\ current_mutation' = f.replacements
                      /\ attempt' = attempt + 1
                      /\ e_pc' = "apply"
                      /\ UNCHANGED e_result
                 ELSE /\ e_pc' = "done"
                      /\ e_result' = OkResult("compile_error")
                      /\ UNCHANGED <<current_mutation, attempt>>
       \/ \* the LLM call itself failed
          /\ e_pc' = "done"
          /\ e_result' = OkResult("compile_error")
          /\ UNCHANGED <<current_mutation, attempt>>
    /\ UNCHANGED <<disk, entry_content, original_content, mutated_content,
                   test_result>>

ExecStep ==
    \/ ReadOriginal
    \/ ApplyMutation
    \/ WriteMutated
    \/ RunBuild
    \/ RunTests
    \/ RevertAfterTest
    \/ RevertAfterBuild
    \/ FixMutation

InitExec == ExecInit /\ DaemonIdle /\ StageIdle /\ CycleIdle /\ MutIdle /\ RestIdle
NextExec == ExecStep
SpecExec == InitExec /\ [][NextExec]_vars

---------------------------------------------------------------------------
(* Daemon::run, DaemonHandle and process_tasks                             *)

\* ScheduleConfig::is_hour_in_window
is_hour_in_window_Closed(sched, hour) ==
    IF sched.start_hour <= sched.end_hour
    THEN hour >= sched.start_hour /\ hour <= sched.end_hour
    ELSE hour >= sched.start_hour \/ hour <= sched.end_hour
is_hour_in_window(sched, hour) ==
    IF sched.start_hour <= sched.end_hour
    THEN hour >= sched.start_hour /\ hour < sched.end_hour
    ELSE hour >= sched.start_hour \/ hour < sched.end_hour

HoursPerDay == 24

\* The schedule windows the daemon is run with: a day window and an
\* overnight window.
Schedules ==
    { [start_hour |-> 9, end_hour |-> 17],
      [start_hour |-> 22, end_hour |-> 6] }

\* Most repositories in the store.
MaxRepos == 2

\* Seconds of the sleep that ends a cycle (delay_secs is 60 * 60 in the
\* code; the loop of interruptible_sleep is the same for any length).
SleepSeconds == 2

RepoLists == UNION {[1..n -> BOOLEAN] : n \in 0..MaxRepos}

\* enabled_repos: the indices of the enabled repositories, in order.
RECURSIVE EnabledFrom(_, _)
EnabledFrom(repos, k) ==
    IF k > Len(repos) THEN <<>>
    ELSE IF repos[k] THEN <<k>> \o EnabledFrom(repos, k + 1)
    ELSE EnabledFrom(repos, k + 1)

enabled_repos == EnabledFrom(repositories, 1)

\* Daemon::new
DaemonInit ==
    /\ status = "Waiting"
    /\ should_stop = FALSE
    /\ trigger_scan = FALSE
    /\ d_pc = "select"
    /\ run_result = "none"
    /\ in_window = FALSE
    /\ cycle_kind = "none"
    /\ prior_status = "none"
    /\ now_hour = 0
    /\ schedule \in Schedules
    /\ p_pc = "idle"
    /\ p_result = "none"
    /\ endpoints_enabled \in {0, 2}
    /\ repositories \in RepoLists
    /\ repo_idx = 0
    /\ repos_listed = FALSE
    /\ analysed = {}
    /\ db_status = "idle"
    /\ sleep_left = 0

\* DaemonHandle::stop
Stop ==
    /\ DaemonFrame
    /\ d_pc # "exited"
    /\ ~should_stop
    /\ should_stop' = TRUE
    /\ UNCHANGED <<status, trigger_scan, d_pc, run_result, in_window,
                   cycle_kind, prior_status, now_hour, schedule, p_pc,
                   p_result, endpoints_enabled, repositories, repo_idx,
                   repos_listed, analysed, db_status, sleep_left>>

\* DaemonHandle::trigger_scan
TriggerScan ==
    /\ DaemonFrame
    /\ d_pc # "exited"
    /\ ~trigger_scan
    /\ trigger_scan' = TRUE
    /\ UNCHANGED <<status, should_stop, d_pc, run_result, in_window,
                   cycle_kind, prior_status, now_hour, schedule, p_pc,
                   p_result, endpoints_enabled, repositories, repo_idx,
                   repos_listed, analysed, db_status, sleep_left>>

\* The wall clock moves on by an hour.
ClockAdvance ==
    /\ DaemonFrame
    /\ d_pc # "exited"
    /\ now_hour' = (now_hour + 1) % HoursPerDay
    /\ UNCHANGED <<status, should_stop, trigger_scan, d_pc, run_result,
                   in_window, cycle_kind, prior_status, schedule, p_pc,
                   p_result, endpoints_enabled, repositories, repo_idx,
                   repos_listed, analysed, db_status, sleep_left>>

\* The frame of a step of Daemon::run outside process_tasks.
RunFrame ==
    /\ DaemonFrame
    /\ UNCHANGED <<should_stop, now_hour, schedule, endpoints_enabled,
                   repositories, repo_idx, repos_listed, analysed, db_status,
                   sleep_left>>

\* set_status(Stopping); return Ok(())  (daemon/mod.rs 348-350)
ExitLoop ==
    /\ status' = "Stopping"
    /\ d_pc' = "exited"
    /\ run_result' = "Ok"

\* select!: the ticker's branch  (daemon/mod.rs 299-300)
Tick ==
    /\ RunFrame
    /\ d_pc = "select"
    /\ d_pc' = "check_stop"
    /\ UNCHANGED <<status, trigger_scan, run_result, in_window, cycle_kind,
                   prior_status, p_pc, p_result>>

\* select!: wait_for_stop returned, break  (daemon/mod.rs 301-303, 354-359)
StopWake ==
    /\ RunFrame
    /\ d_pc = "select"
    /\ should_stop
    /\ ExitLoop
    /\ UNCHANGED <<trigger_scan, in_window, cycle_kind, prior_status, p_pc,
                   p_result>>

\* if should_stop { break }  (daemon/mod.rs 307-309)
CheckStop ==
    /\ RunFrame
    /\ d_pc = "check_stop"
    /\ IF should_stop
       THEN ExitLoop
       ELSE d_pc' = "check_trigger" /\ UNCHANGED <<status, run_result>>
    /\ UNCHANGED <<trigger_scan, in_window, cycle_kind, prior_status, p_pc,
                   p_result>>

\* swap reading the flag without storing into it.
swap_Load(flag) == flag

\* The value trigger_scan.swap(false, SeqCst) leaves in the flag
\* (daemon/mod.rs 312)
swap(flag) == FALSE

\* trigger_scan.swap(false); the manual branch sets Processing and calls
\* process_tasks  (daemon/mod.rs 312-316)
CheckTrigger ==
    /\ RunFrame
    /\ d_pc = "check_trigger"
    /\ trigger_scan' = swap(trigger_scan)
    /\ IF trigger_scan
       THEN /\ prior_status' = status
            /\ status' = "Processing"
            /\ cycle_kind' = "manual"
            /\ d_pc' = "cycle"
            /\ p_pc' = "p_start"
            /\ p_result' = "none"
       ELSE /\ d_pc' = "match"
            /\ UNCHANGED <<status, cycle_kind, prior_status, p_pc, p_result>>
    /\ UNCHANGED <<run_result, in_window>>

\* MatchStatus with the (Processing, false) arm lost: the status stays
\* Processing after the window has closed.
MatchStatus_NoPause(st, inw) ==
    CASE st = "Waiting" /\ inw -> "Processing"
      [] OTHER                 -> st

\* The status a tick without stop or trigger leaves, by (status, in_window)
\* (daemon/mod.rs 324-345)
MatchStatus(st, inw) ==
    CASE st = "Waiting" /\ inw     -> "Processing"
      [] st = "Processing" /\ inw  -> "Processing"
      [] st = "Processing" /\ ~inw -> "Waiting"
      [] st = "Waiting" /\ ~inw    -> "Waiting"
      [] OTHER                     -> st

\* Whether that tick calls process_tasks.
MatchRunsCycle(st, inw) == st \in {"Waiting", "Processing"} /\ inw

\* let in_window = is_in_schedule(); match (status, in_window)
\* (daemon/mod.rs 322-345)
MatchSchedule ==
    /\ RunFrame
    /\ d_pc = "match"
    /\ LET inw == is_hour_in_window(schedule, now_hour)
       IN  /\ in_window' = inw
           /\ prior_status' = status
           /\ IF status = "Stopping"
              THEN ExitLoop /\ UNCHANGED <<cycle_kind, p_pc, p_result>>
              ELSE /\ status' = MatchStatus(status, inw)
                   /\ UNCHANGED run_result
                   /\ IF MatchRunsCycle(status, inw)
                      THEN /\ cycle_kind' = "scheduled"
                           /\ d_pc' = "cycle"
                           /\ p_pc' = "p_start"
                           /\ p_result' = "none"
                      ELSE /\ cycle_kind' = "none"
                           /\ d_pc' = "select"
                           /\ UNCHANGED <<p_pc, p_result>>
    /\ UNCHANGED trigger_scan

\* StatusAfterManual putting back the status the trigger found.
StatusAfterManual_RestorePrior(prior) == prior

\* The status after a manually triggered cycle that returned Ok
\* (daemon/mod.rs 317)
StatusAfterManual(prior) == "Waiting"

\* process_tasks().await? returned  (daemon/mod.rs 316-318, 328, 332)
CycleReturned ==
    /\ RunFrame
    /\ d_pc = "cycle"
    /\ p_pc = "returned"
    /\ p_pc' = "idle"
    /\ IF p_result = "Err"
       THEN /\ d_pc' = "exited"
            /\ run_result' = "Err"
            /\ UNCHANGED status
       ELSE /\ d_pc' = "select"
            /\ UNCHANGED run_result
            /\ status' = IF cycle_kind = "manual"
                         THEN StatusAfterManual(prior_status)
                         ELSE status
    /\ UNCHANGED <<trigger_scan, in_window, cycle_kind, prior_status, p_result>>

\* The frame of a step of process_tasks.
ProcessFrame ==
    /\ DaemonFrame
    /\ d_pc = "cycle"
    /\ UNCHANGED <<status, should_stop, trigger_scan, d_pc, run_result,
                   in_window, cycle_kind, prior_status, now_hour, schedule,
                   endpoints_enabled, repositories>>

\* return Err(e) out of process_tasks: the `?` on a store call.
ReturnErr == p_pc' = "returned" /\ p_result' = "Err"
ReturnOk == p_pc' = "returned" /\ p_result' = "Ok"

\* update_daemon_status("processing", "scanning repositories").await?
\* (daemon/mod.rs 377-379)
PStart ==
    /\ ProcessFrame
    /\ p_pc = "p_start"
    /\ repo_idx' = 0
    /\ repos_listed' = FALSE
    /\ analysed' = {}
    /\ \/ db_status' = "processing" /\ p_pc' = "p_endpoints" /\ UNCHANGED p_result
       \/ ReturnErr /\ UNCHANGED db_status
    /\ UNCHANGED sleep_left

\* The enabled endpoints, read from the configuration  (daemon/mod.rs 382-392)
PEndpoints ==
    /\ ProcessFrame
    /\ p_pc = "p_endpoints"
    /\ p_pc' = IF endpoints_enabled = 0 THEN "p_idle_early" ELSE "p_repos"
    /\ UNCHANGED <<p_result, repo_idx, repos_listed, analysed, db_status,
                   sleep_left>>

\* update_daemon_status("idle", ...).await? of the two early exits
\* (daemon/mod.rs 394-396, 414)
PIdleEarly ==
    /\ ProcessFrame
    /\ p_pc = "p_idle_early"
    /\ \/ db_status' = "idle" /\ p_pc' = "p_sleep5" /\ UNCHANGED p_result
       \/ ReturnErr /\ UNCHANGED db_status
    /\ UNCHANGED <<repo_idx, repos_listed, analysed, sleep_left>>

\* sleep(5 s); return Ok(())  (daemon/mod.rs 397-398, 415-416)
PSleep5 ==
    /\ ProcessFrame
    /\ p_pc = "p_sleep5"
    /\ ReturnOk
    /\ UNCHANGED <<repo_idx, repos_listed, analysed, db_status, sleep_left>>

\* get_repositories; enabled_repos  (daemon/mod.rs 402-417)
PRepos ==
    /\ ProcessFrame
    /\ p_pc = "p_repos"
    /\ \/ /\ repos_listed' = TRUE
          /\ IF enabled_repos = <<>>
             THEN p_pc' = "p_idle_early" /\ UNCHANGED repo_idx
             ELSE p_pc' = "p_loop" /\ repo_idx' = 1
          /\ UNCHANGED p_result
       \/ \* Err(e): logged, return Ok(())
          /\ ReturnOk
          /\ UNCHANGED <<repos_listed, repo_idx>>
    /\ UNCHANGED <<analysed, db_status, sleep_left>>

\* for repo in enabled_repos { if should_stop { break } ...
\* (daemon/mod.rs 420-424)
PLoop ==
    /\ ProcessFrame
    /\ p_pc = "p_loop"
    /\ p_pc' = IF repo_idx > Len(enabled_repos) \/ should_stop
               THEN "p_idle_end" ELSE "p_repo_status"
    /\ UNCHANGED <<p_result, repo_idx, repos_listed, analysed, db_status,
                   sleep_left>>

\* update_daemon_status("processing", "analyzing ...").await?
\* (daemon/mod.rs 427-429)
PRepoStatus ==
    /\ ProcessFrame
    /\ p_pc = "p_repo_status"
    /\ \/ db_status' = "processing" /\ p_pc' = "p_analyze" /\ UNCHANGED p_result
       \/ ReturnErr /\ UNCHANGED db_status
    /\ UNCHANGED <<repo_idx, repos_listed, analysed, sleep_left>>

\* analyze_repository_parallel(&repo, &endpoints); its error is only logged
\* (daemon/mod.rs 431-433)
PAnalyze ==
    /\ ProcessFrame
    /\ p_pc = "p_analyze"
    /\ \E result \in {"Ok", "Err"} :
          analysed' = analysed \cup
                          {[repo |-> enabled_repos[repo_idx], result |-> result]}
    /\ repo_idx' = repo_idx + 1
    /\ p_pc' = "p_loop"
    /\ UNCHANGED <<p_result, repos_listed, db_status, sleep_left>>

\* update_daemon_status("idle", None).await?; then the sleep
\* (daemon/mod.rs 436-446)
PIdleEnd ==
    /\ ProcessFrame
    /\ p_pc = "p_idle_end"
    /\ \/ /\ db_status' = "idle"
          /\ p_pc' = "p_sleep"
          /\ sleep_left' = SleepSeconds
          /\ UNCHANGED p_result
       \/ ReturnErr /\ UNCHANGED <<db_status, sleep_left>>
    /\ UNCHANGED <<repo_idx, repos_listed, analysed>>

\* interruptible_sleep: one round of its loop  (daemon/mod.rs 363-370, 446-448)
PSleep ==
    /\ ProcessFrame
    /\ p_pc = "p_sleep"
    /\ IF sleep_left = 0 \/ should_stop
       THEN ReturnOk /\ UNCHANGED sleep_left
       ELSE sleep_left' = sleep_left - 1 /\ UNCHANGED <<p_pc, p_result>>
    /\ UNCHANGED <<repo_idx, repos_listed, analysed, db_status>>

InitDaemon == DaemonInit /\ ExecIdle /\ StageIdle /\ CycleIdle /\ MutIdle /\ RestIdle

NextDaemon ==
    \/ Stop
    \/ TriggerScan
    \/ ClockAdvance
    \/ Tick
    \/ StopWake
    \/ CheckStop
    \/ CheckTrigger
    \/ MatchSchedule
    \/ CycleReturned
    \/ PStart
    \/ PEndpoints
    \/ PIdleEarly
    \/ PSleep5
    \/ PRepos
    \/ PLoop
    \/ PRepoStatus
    \/ PAnalyze
    \/ PIdleEnd
    \/ PSleep

SpecDaemon == InitDaemon /\ [][NextDaemon]_vars

---------------------------------------------------------------------------
(* One per-file fan-out stage: run_code_understanding_analysis and the     *)
(* analysis_worker tasks it spawns, one per endpoint.                      *)

\* mpsc::channel::<AnalysisTask>(100)
QueueCapacity == 100

\* The stage's analysis type (AnalysisType::CodeUnderstanding).
StageType == "code_understanding"

\* Most endpoints, most files and most stored rows of the small runs.
MaxEndpoints == 2
MaxFiles == 2
MaxRows == 2

\* Files handed to the stage, and its endpoints, in the run that fills the
\* queue.
LoadFiles == 102
LoadEndpoints == 1

NoTask == [path |-> 0, hash |-> "none", task_type |-> "none"]

File(p, h) == [path |-> p, hash |-> h]
Row(p, t, h) == [file_path |-> p, analysis_type |-> t, content_hash |-> h]

\* get_latest_file_hash: the content_hash of the row with the greatest id
\* among those of (file_path, analysis_type); None without such a row.
\* (WHERE file_path = ? AND analysis_type = ? ORDER BY id DESC LIMIT 1)
LatestHash(rows, p, t) ==
    LET ids == {k \in 1..Len(rows) :
                   rows[k].file_path = p /\ rows[k].analysis_type = t}
    IN  IF ids = {} THEN "None"
        ELSE rows[CHOOSE k \in ids : \A j \in ids : j <= k].content_hash

\* Outcomes of a store call and of an LLM call, by what the environment
\* allows.
StoreOutcomes == IF store_mode = "ok" THEN {"Ok"} ELSE {"Ok", "Err"}
LlmOutcomes ==
    CASE llm_mode = "ok"  -> {"Ok"}
      [] llm_mode = "err" -> {"Err"}
      [] OTHER            -> {"Ok", "Err"}

Workers == DOMAIN w_pc

\* The stage is entered: nothing spawned yet.
StageEntry(files, rows, n) ==
    /\ file_data = files
    /\ analysis_rows = rows
    /\ rows0 = rows
    /\ queue = <<>>
    /\ tx_open = TRUE
    /\ s_pc = "spawn"
    /\ file_idx = 0
    /\ tasks_sent = 0
    /\ s_result = "none"
    /\ w_pc = [w \in 1..n |-> "unspawned"]
    /\ w_task = [w \in 1..n |-> NoTask]
    /\ rx_lock = 0
    /\ llm_calls = [k \in 1..Len(files) |-> 0]

\* find_source_files yields distinct paths; each has its current hash.
StageFileLists == {[k \in 1..n |-> File(k, "h1")] : n \in 1..MaxFiles}

StageRowLists ==
    UNION {[1..n -> {Row(p, StageType, h) : p \in 1..MaxFiles, h \in {"h0", "h1"}}] :
           n \in 0..MaxRows}

StageInit ==
    /\ \E files \in StageFileLists, rows \in StageRowLists, n \in 1..MaxEndpoints :
           StageEntry(files, rows, n)
    /\ llm_mode = "any"
    /\ store_mode = "any"

\* The run that offers more tasks than the queue holds: LoadFiles files
\* none of which has a stored row.
StageLoadInit ==
    /\ \E n \in 1..LoadEndpoints :
           StageEntry([k \in 1..LoadFiles |-> File(k, "h1")], <<>>, n)
    /\ llm_mode \in {"ok", "err"}
    /\ store_mode = "ok"

\* The run over a repository whose project roots are nested: file_data is
\* the concatenation of each project's find_source_files, so a file below
\* a workspace root that is a package and below one of its members is
\* listed once per root  (daemon/mod.rs 530-556).  No row is stored yet.
StageRootsFileLists == {[k \in 1..MaxFiles |-> File(f[k], "h1")] :
                           f \in [1..MaxFiles -> 1..MaxFiles]}

StageRootsInit ==
    /\ \E files \in StageRootsFileLists, n \in 1..MaxEndpoints :
           StageEntry(files, <<>>, n)
    /\ llm_mode = "any"
    /\ store_mode = "any"

\* The frame of a step of the stage function (the producer).
ProducerFrame ==
    /\ StageFrame
    /\ UNCHANGED <<file_data, rows0, analysis_rows, rx_lock, llm_calls,
                   llm_mode, store_mode, w_task>>

\* tokio::spawn(analysis_worker(...)) for every endpoint
\* (daemon/mod.rs 791-806)
SSpawn ==
    /\ ProducerFrame
    /\ s_pc = "spawn"
    /\ w_pc' = [w \in Workers |-> "probe"]
    /\ file_idx' = 1
    /\ s_pc' = "loop"
    /\ UNCHANGED <<queue, tx_open, tasks_sent, s_result>>

\* for ... in file_data { if should_stop { break } ...  (daemon/mod.rs 811-814)
SLoop ==
    /\ ProducerFrame
    /\ s_pc = "loop"
    /\ s_pc' = IF file_idx > Len(file_data) \/ should_stop
               THEN "drop_tx" ELSE "lookup"
    /\ UNCHANGED <<queue, tx_open, file_idx, tasks_sent, s_result, w_pc>>

\* The hash the stage's check compares with the file's content_hash:
\* get_latest_file_hash(...).await.unwrap_or(None)  (daemon/mod.rs 819-827)
ExistingHash(outcome, rows, f) ==
    IF outcome = "Ok" THEN LatestHash(rows, f.path, StageType) ELSE "None"

\* The check for an unchanged file  (daemon/mod.rs 819-831)
SLookup ==
    /\ ProducerFrame
    /\ s_pc = "lookup"
    /\ \E outcome \in StoreOutcomes :
          LET f == file_data[file_idx]
              existing_hash == ExistingHash(outcome, analysis_rows, f)
          IN  IF existing_hash = f.hash
              THEN s_pc' = "loop" /\ file_idx' = file_idx + 1
              ELSE s_pc' = "send" /\ UNCHANGED file_idx
    /\ UNCHANGED <<queue, tx_open, tasks_sent, s_result, w_pc>>

\* tx.send(task).await: waits while the channel is full.  The receiver is
\* never closed or dropped while the stage runs (the stage holds its Arc),
\* so the send cannot fail  (daemon/mod.rs 833-845)
SSend ==
    /\ ProducerFrame
    /\ s_pc = "send"
    /\ Len(queue) < QueueCapacity
    /\ LET f == file_data[file_idx]
       IN  queue' = Append(queue, [path |-> f.path, hash |-> f.hash,
                                   task_type |-> StageType])
    /\ tasks_sent' = tasks_sent + 1
    /\ file_idx' = file_idx + 1
    /\ s_pc' = "loop"
    /\ UNCHANGED <<tx_open, s_result, w_pc>>

\* drop(tx)  (daemon/mod.rs 848)
SDropTx ==
    /\ ProducerFrame
    /\ s_pc = "drop_tx"
    /\ tx_open' = FALSE
    /\ s_pc' = "join"
    /\ UNCHANGED <<queue, file_idx, tasks_sent, s_result, w_pc>>

\* for handle in worker_handles { handle.await }; Ok(tasks_sent > 0)
\* (daemon/mod.rs 850-856)
SJoin ==
    /\ ProducerFrame
    /\ s_pc = "join"
    /\ \A w \in Workers : w_pc[w] = "done"
    /\ s_pc' = "returned"
    /\ s_result' = IF tasks_sent > 0 THEN "changed" ELSE "unchanged"
    /\ UNCHANGED <<queue, tx_open, file_idx, tasks_sent, w_pc>>

\* The frame of a step of a worker.
WorkerFrame ==
    /\ StageFrame
    /\ UNCHANGED <<file_data, rows0, tx_open, s_pc, file_idx, tasks_sent,
                   s_result, llm_mode, store_mode>>

\* if !client.is_available() { return }  (daemon/mod.rs 1857-1864)
WProbe(w) ==
    /\ WorkerFrame
    /\ w_pc[w] = "probe"
    /\ \E up \in BOOLEAN :
          w_pc' = [w_pc EXCEPT ![w] = IF up THEN "top" ELSE "done"]
    /\ UNCHANGED <<analysis_rows, queue, w_task, rx_lock, llm_calls>>

\* loop { if should_stop { break } ...  (daemon/mod.rs 1872-1879)
WTop(w) ==
    /\ WorkerFrame
    /\ w_pc[w] = "top"
    /\ w_pc' = [w_pc EXCEPT ![w] = IF should_stop THEN "done" ELSE "lock"]
    /\ UNCHANGED <<analysis_rows, queue, w_task, rx_lock, llm_calls>>

\* receiver.lock().await  (daemon/mod.rs 1882)
WLock(w) ==
    /\ WorkerFrame
    /\ w_pc[w] = "lock"
    /\ rx_lock = 0
    /\ rx_lock' = w
    /\ w_pc' = [w_pc EXCEPT ![w] = "recv"]
    /\ UNCHANGED <<analysis_rows, queue, w_task, llm_calls>>

\* recv handing out the task sent last.
recv_Last(q) == [task |-> q[Len(q)], rest |-> SubSeq(q, 1, Len(q) - 1)]

\* rx.recv() on a channel that holds tasks: the task sent first, which
\* leaves the channel  (daemon/mod.rs 1884)
recv(q) == [task |-> Head(q), rest |-> Tail(q)]

\* select! { rx.recv() => Some(task) }  (daemon/mod.rs 1883-1884, 1895-1896)
WRecvTask(w) ==
    /\ WorkerFrame
    /\ w_pc[w] = "recv"
    /\ queue # <<>>
    /\ w_task' = [w_task EXCEPT ![w] = recv(queue).task]
    /\ queue' = recv(queue).rest
    /\ rx_lock' = 0
    /\ w_pc' = [w_pc EXCEPT ![w] = "generate"]
    /\ UNCHANGED <<analysis_rows, llm_calls>>

\* select! { rx.recv() => None }: the channel is closed and empty
\* (daemon/mod.rs 1897-1903)
WRecvClosed(w) ==
    /\ WorkerFrame
    /\ w_pc[w] = "recv"
    /\ queue = <<>>
    /\ ~tx_open
    /\ rx_lock' = 0
    /\ w_pc' = [w_pc EXCEPT ![w] = "done"]
    /\ UNCHANGED <<analysis_rows, queue, w_task, llm_calls>>

\* select! { wait_for_stop_signal => break }  (daemon/mod.rs 1885-1891)
WRecvStop(w) ==
    /\ WorkerFrame
    /\ w_pc[w] = "recv"
    /\ should_stop
    /\ rx_lock' = 0
    /\ w_pc' = [w_pc EXCEPT ![w] = "done"]
    /\ UNCHANGED <<analysis_rows, queue, w_task, llm_calls>>

\* The index in file_data of the task's file (its first occurrence).
FileIndex(p) == CHOOSE k \in 1..Len(file_data) : file_data[k].path = p

\* client.generate(&prompt).await  (daemon/mod.rs 1950, 1970-1978)
WGenerate(w) ==
    /\ WorkerFrame
    /\ w_pc[w] = "generate"
    /\ llm_calls' = [llm_calls EXCEPT ![FileIndex(w_task[w].path)] = @ + 1]
    /\ \E outcome \in LlmOutcomes :
          IF outcome = "Ok"
          THEN w_pc' = [w_pc EXCEPT ![w] = "save"] /\ UNCHANGED w_task
          ELSE /\ w_pc' = [w_pc EXCEPT ![w] = "top"]
               /\ w_task' = [w_task EXCEPT ![w] = NoTask]
    /\ UNCHANGED <<analysis_rows, queue, rx_lock>>

\* db.save_analysis_result(...)  (daemon/mod.rs 1956-1968)
WSave(w) ==
    /\ WorkerFrame
    /\ w_pc[w] = "save"
    /\ \E outcome \in StoreOutcomes :
          IF outcome = "Ok"
          THEN analysis_rows' =
                   Append(analysis_rows,
                          Row(w_task[w].path, w_task[w].task_type, w_task[w].hash))
          ELSE UNCHANGED analysis_rows
    /\ w_pc' = [w_pc EXCEPT ![w] = "top"]
    /\ w_task' = [w_task EXCEPT ![w] = NoTask]
    /\ UNCHANGED <<queue, rx_lock, llm_calls>>

\* A step of the stage function or of one of its workers.
StageStep ==
    \/ SSpawn
    \/ SLoop
    \/ SLookup
    \/ SSend
    \/ SDropTx
    \/ SJoin
    \/ \E w \in Workers : WProbe(w)
    \/ \E w \in Workers : WTop(w)
    \/ \E w \in Workers : WLock(w)
    \/ \E w \in Workers : WRecvTask(w)
    \/ \E w \in Workers : WRecvClosed(w)
    \/ \E w \in Workers : WRecvStop(w)
    \/ \E w \in Workers : WGenerate(w)
    \/ \E w \in Workers : WSave(w)

\* DaemonHandle::stop while a stage runs.
StageStop == Stop /\ s_pc # "returned"

InitStage == StageInit /\ ExecIdle /\ DaemonIdle /\ CycleIdle /\ MutIdle /\ RestIdle
NextStage == StageStep \/ StageStop
SpecStage == InitStage /\ [][NextStage]_vars

InitStageLoad == StageLoadInit /\ ExecIdle /\ DaemonIdle /\ CycleIdle /\ MutIdle /\ RestIdle
SpecStageLoad == InitStageLoad /\ [][NextStage]_vars

InitStageRoots == StageRootsInit /\ ExecIdle /\ DaemonIdle /\ CycleIdle /\ MutIdle /\ RestIdle
SpecStageRoots == InitStageRoots /\ [][NextStage]_vars

---------------------------------------------------------------------------
(* analyze_repository_parallel: the workspace copy, the per-file fan-out   *)
(* of phase 1, the aggregation of phase 2 and mutation testing, with each  *)
(* worker task reduced to "running" or "done".                             *)

\* Most aggregation LLM calls followed per call of the function.
MaxAggCalls == 2

StageNames == {"code", "arch", "diagram", "doc"}
AggNames == {"arch_summary", "diagrams"}

\* The four enable flags of RepoConfig.
RepoConfigs ==
    [enable_code_analysis : BOOLEAN, enable_architecture_analysis : BOOLEAN,
     enable_diagram_creation : BOOLEAN, enable_mutation_testing : BOOLEAN]

\* RepoConfig::default(): every flag false.
DefaultConfig ==
    [enable_code_analysis |-> FALSE, enable_architecture_analysis |-> FALSE,
     enable_diagram_creation |-> FALSE, enable_mutation_testing |-> FALSE]

\* What .noctum.toml may be in the workspace: missing, unreadable, blank
\* (empty or white space only), unparsable, or TOML that parses; `flags` is
\* what its text sets the four flags to (a key left out is false).
ConfigFiles ==
    {[kind |-> k, flags |-> DefaultConfig] : k \in {"missing", "blank"}}
        \cup [kind : {"unreadable", "unparsable", "toml"}, flags : RepoConfigs]

\* RepoConfig::load: <<>> is None, <<config>> is Some(config)
\* (repo_config.rs 73-84)
load(file) ==
    CASE file.kind = "missing" -> <<>>
      [] file.kind = "unreadable" -> <<>>
      [] file.kind = "blank" -> <<DefaultConfig>>
      [] file.kind = "unparsable" -> <<>>
      [] file.kind = "toml" -> <<file.flags>>

\* Option::unwrap_or_default
unwrap_or_default(option) == IF option = <<>> THEN DefaultConfig ELSE option[1]

\* Whether phase 1 runs the stage: code_future, arch_future, diagram_future
\* and doc_future (documentation goes with architecture).
StageEnabled_DocAlways(cfg, st) ==
    CASE st = "code"    -> cfg.enable_code_analysis
      [] st = "arch"    -> cfg.enable_architecture_analysis
      [] st = "diagram" -> cfg.enable_diagram_creation
      [] st = "doc"     -> TRUE
StageEnabled(cfg, st) ==
    CASE st = "code"    -> cfg.enable_code_analysis
      [] st = "arch"    -> cfg.enable_architecture_analysis
      [] st = "diagram" -> cfg.enable_diagram_creation
      [] st = "doc"     -> cfg.enable_architecture_analysis

\* Whether phase 2 runs the aggregation.
AggEnabled(cfg, g) ==
    IF g = "arch_summary" THEN cfg.enable_architecture_analysis
    ELSE cfg.enable_diagram_creation

\* Dropping a TempDir removes its directory.
DropTempDir_Leak(dirs, t) == dirs
DropTempDir(dirs, t) == dirs \ {t}

\* The call is entered for one repository.
CycleEntry(n) ==
    /\ a_pc = "entry"
    /\ a_result = "none"
    /\ repo_config = <<>>
    /\ config_file = <<>>
    /\ has_context = FALSE
    /\ temp_dir = 0
    /\ st_pc = [st \in StageNames |-> "off"]
    /\ st_changed = [st \in StageNames |-> FALSE]
    /\ st_stored = [st \in StageNames |-> FALSE]
    /\ st_workers = [st \in StageNames |-> [w \in 1..n |-> "unspawned"]]
    /\ agg_pc = [g \in AggNames |-> "off"]
    /\ agg_calls = 0
    /\ any_changed = FALSE

CycleInit ==
    /\ \E n \in 1..MaxEndpoints : CycleEntry(n)
    /\ a_calls = 1
    /\ workspaces = {}
    /\ ws_created = 0

\* Every `return` of the function, `?` included, drops the TempDir it owns.
Return(result) ==
    /\ a_pc' = "returned"
    /\ a_result' = result
    /\ workspaces' = IF temp_dir = 0 THEN workspaces
                     ELSE DropTempDir(workspaces, temp_dir)
    /\ temp_dir' = 0

\* The frame of a step that only moves on or returns.
AFrame ==
    /\ CycleFrame
    /\ UNCHANGED <<a_calls, ws_created, st_pc, st_changed, st_stored, st_workers, agg_pc,
                   agg_calls>>

\* if !original_repo_path.exists() { return Ok(false) }
\* (daemon/mod.rs 459-463)
AEntry ==
    /\ AFrame
    /\ a_pc = "entry"
    /\ \/ Return("Ok")
       \/ a_pc' = "create_temp" /\ UNCHANGED <<a_result, workspaces, temp_dir>>
    /\ UNCHANGED <<repo_config, config_file, has_context, any_changed>>

\* tempfile::TempDir::with_prefix("noctum-")?  (daemon/mod.rs 42, 471-477)
ACreateTemp ==
    /\ CycleFrame
    /\ a_pc = "create_temp"
    /\ \/ /\ ws_created' = ws_created + 1
          /\ workspaces' = workspaces \cup {ws_created + 1}
          /\ temp_dir' = ws_created + 1
          /\ a_pc' = "copy"
          /\ UNCHANGED a_result
       \/ Return("Err") /\ UNCHANGED ws_created
    /\ UNCHANGED <<a_calls, repo_config, config_file, has_context, st_pc, st_changed, st_stored,
                   st_workers, agg_pc, agg_calls, any_changed>>

\* fs_extra::dir::copy(...)?: a failed copy drops the TempDir inside
\* copy_repo_to_temp  (daemon/mod.rs 53-56, 471-477)
ACopy ==
    /\ AFrame
    /\ a_pc = "copy"
    /\ \/ a_pc' = "config" /\ UNCHANGED <<a_result, workspaces, temp_dir>>
       \/ Return("Err")
    /\ UNCHANGED <<repo_config, config_file, has_context, any_changed>>

\* RepoConfig::load(...).unwrap_or_default() and the check that some
\* analysis is enabled  (daemon/mod.rs 485-509)
AConfig ==
    /\ AFrame
    /\ a_pc = "config"
    /\ \E file \in ConfigFiles :
        LET cfg == unwrap_or_default(load(file))
        IN
          /\ config_file' = file
          /\ repo_config' = cfg
          /\ IF \/ cfg.enable_code_analysis
                \/ cfg.enable_architecture_analysis
                \/ cfg.enable_diagram_creation
                \/ cfg.enable_mutation_testing
             THEN a_pc' = "discover" /\ UNCHANGED <<a_result, workspaces, temp_dir>>
             ELSE Return("Ok")
    /\ UNCHANGED <<has_context, any_changed>>

\* discover_projects(temp_repo_path)? and the empty-projects return
\* (daemon/mod.rs 512-517)
ADiscover ==
    /\ AFrame
    /\ a_pc = "discover"
    /\ \/ Return("Err")
       \/ Return("Ok")
       \/ a_pc' = "collect" /\ UNCHANGED <<a_result, workspaces, temp_dir>>
    /\ UNCHANGED <<repo_config, config_file, has_context, any_changed>>

\* The loops that fill file_data and context_file_data, with
\* find_source_files(...)?, find_context_files(...)? and the return on an
\* empty file_data  (daemon/mod.rs 531-596)
ACollect ==
    /\ AFrame
    /\ a_pc = "collect"
    /\ \/ Return("Err") /\ UNCHANGED has_context
       \/ Return("Ok") /\ UNCHANGED has_context
       \/ /\ a_pc' = "phase1"
          /\ has_context' \in BOOLEAN
          /\ UNCHANGED <<a_result, workspaces, temp_dir>>
    /\ UNCHANGED <<repo_config, config_file, any_changed>>

\* Phase 1 begins: tokio::join! polls the four stage futures; a disabled
\* stage's future is Ok(false) at once  (daemon/mod.rs 630-673)
APhase1 ==
    /\ CycleFrame
    /\ a_pc = "phase1"
    /\ st_pc' = [st \in StageNames |->
                    IF StageEnabled(repo_config, st) THEN "entered" ELSE "returned"]
    /\ a_pc' = "join1"
    /\ UNCHANGED <<a_result, a_calls, repo_config, config_file, has_context, workspaces,
                   temp_dir, ws_created, st_changed, st_stored, st_workers, agg_pc,
                   agg_calls, any_changed>>

\* The frame of a step of one stage or of one worker of phase 1.
StFrame ==
    /\ CycleFrame
    /\ UNCHANGED <<a_pc, a_result, a_calls, repo_config, config_file, has_context,
                   workspaces, temp_dir, ws_created, agg_pc, agg_calls,
                   any_changed>>

\* The stage spawns one worker per endpoint; documentation analysis
\* returns Ok(false) before that without context files
\* (daemon/mod.rs 791-806, 1017-1019)
StSpawn(st) ==
    /\ StFrame
    /\ st_pc[st] = "entered"
    /\ IF st = "doc" /\ ~has_context
       THEN /\ st_pc' = [st_pc EXCEPT ![st] = "returned"]
            /\ UNCHANGED st_workers
       ELSE /\ st_pc' = [st_pc EXCEPT ![st] = "spawned"]
            /\ st_workers' = [st_workers EXCEPT
                                 ![st] = [w \in DOMAIN st_workers[st] |-> "running"]]
    /\ UNCHANGED <<st_changed, st_stored>>

\* analysis_worker returns  (daemon/mod.rs 1849-1986)
StWorkerReturns(st, w) ==
    /\ StFrame
    /\ st_workers[st][w] = "running"
    /\ st_workers' = [st_workers EXCEPT ![st][w] = "done"]
    \* the worker stored a result row, or none (no task received, or every
    \* generate or save of its tasks failed)
    /\ \E stored \in BOOLEAN :
          st_stored' = [st_stored EXCEPT ![st] = st_stored[st] \/ stored]
    /\ UNCHANGED <<st_pc, st_changed>>

\* for handle in worker_handles { handle.await }: the stage returns after
\* every worker it spawned  (daemon/mod.rs 850-854)
StageMayReturn_NoJoin(st) == TRUE
StageMayReturn(st) == \A w \in DOMAIN st_workers[st] : st_workers[st][w] = "done"

\* tasks_sent > 0: true when a worker stored a row, since a worker stores
\* rows only for tasks it received; without a stored row, either.
TasksSent(st) == IF st_stored[st] THEN {TRUE} ELSE BOOLEAN

\* Ok(tasks_sent > 0)  (daemon/mod.rs 856)
StReturn(st) ==
    /\ StFrame
    /\ st_pc[st] = "spawned"
    /\ StageMayReturn(st)
    /\ st_pc' = [st_pc EXCEPT ![st] = "returned"]
    /\ \E changed \in TasksSent(st) :
          st_changed' = [st_changed EXCEPT ![st] = changed]
    /\ UNCHANGED <<st_workers, st_stored>>

\* tokio::join! completes when the four futures have; any_changed; the
\* stop check  (daemon/mod.rs 672-700).  Without an enabled per-file
\* analysis the join is skipped with the flags false.
AJoin1 ==
    /\ AFrame
    /\ a_pc = "join1"
    /\ \A st \in StageNames : st_pc[st] = "returned"
    /\ any_changed' = \E st \in StageNames : st_changed[st]
    /\ IF should_stop
       THEN Return("Ok")
       ELSE a_pc' = "phase2" /\ UNCHANGED <<a_result, workspaces, temp_dir>>
    /\ UNCHANGED <<repo_config, config_file, has_context>>

\* Phase 2 begins when something changed and an aggregation is enabled
\* (daemon/mod.rs 708-732)
APhase2 ==
    /\ CycleFrame
    /\ a_pc = "phase2"
    /\ LET should_aggregate ==
               /\ any_changed
               /\ \/ repo_config.enable_architecture_analysis
                  \/ repo_config.enable_diagram_creation
       IN  agg_pc' = [g \in AggNames |->
                         IF should_aggregate /\ AggEnabled(repo_config, g)
                         THEN "running" ELSE "returned"]
    /\ a_pc' = "join2"
    /\ UNCHANGED <<a_result, a_calls, repo_config, config_file, has_context, workspaces,
                   temp_dir, ws_created, st_pc, st_changed, st_stored, st_workers,
                   agg_calls, any_changed>>

\* The frame of a step of one aggregation of phase 2.
AggFrame ==
    /\ CycleFrame
    /\ UNCHANGED <<a_pc, a_result, a_calls, repo_config, config_file, has_context,
                   workspaces, temp_dir, ws_created, st_pc, st_changed, st_stored,
                   st_workers, any_changed>>

\* An aggregation LLM call of generate_architecture_summary or of
\* generate_single_diagram  (daemon/mod.rs 1117-1119, 1335-1340)
AggCall(g) ==
    /\ AggFrame
    /\ agg_pc[g] = "running"
    /\ agg_calls < MaxAggCalls
    /\ agg_calls' = agg_calls + 1
    /\ UNCHANGED agg_pc

\* The aggregation returns, Ok or Err  (daemon/mod.rs 1098-1103, 1139)
AggReturn(g) ==
    /\ AggFrame
    /\ agg_pc[g] = "running"
    /\ agg_pc' = [agg_pc EXCEPT ![g] = "returned"]
    /\ UNCHANGED agg_calls

\* tokio::join! of phase 2 completes; the stop check
\* (daemon/mod.rs 731-753)
AJoin2 ==
    /\ AFrame
    /\ a_pc = "join2"
    /\ \A g \in AggNames : agg_pc[g] = "returned"
    /\ IF should_stop
       THEN Return("Ok")
       ELSE a_pc' = "phase3" /\ UNCHANGED <<a_result, workspaces, temp_dir>>
    /\ UNCHANGED <<repo_config, config_file, has_context, any_changed>>

\* Phase 3: run_mutation_testing when enabled, its error only logged,
\* then drop(temp_dir) and Ok(any_changed)  (daemon/mod.rs 761-781)
APhase3 ==
    /\ AFrame
    /\ a_pc = "phase3"
    /\ IF repo_config.enable_mutation_testing
       THEN a_pc' = "mutation" /\ UNCHANGED <<a_result, workspaces, temp_dir>>
       ELSE Return("Ok")
    /\ UNCHANGED <<repo_config, config_file, has_context, any_changed>>

\* run_mutation_testing returns, its error only logged; drop(temp_dir);
\* Ok(any_changed)  (daemon/mod.rs 762-781)
AMutationReturns ==
    /\ AFrame
    /\ a_pc = "mutation"
    /\ Return("Ok")
    /\ UNCHANGED <<repo_config, config_file, has_context, any_changed>>

\* process_tasks goes on to the next repository  (daemon/mod.rs 411-425)
ANextRepo ==
    /\ CycleFrame
    /\ a_pc = "returned"
    /\ a_calls < MaxRepos
    /\ a_calls' = a_calls + 1
    /\ a_pc' = "entry"
    /\ a_result' = "none"
    /\ repo_config' = <<>>
    /\ config_file' = <<>>
    /\ has_context' = FALSE
    /\ st_pc' = [st \in StageNames |-> "off"]
    /\ st_changed' = [st \in StageNames |-> FALSE]
    /\ st_stored' = [st \in StageNames |-> FALSE]
    /\ st_workers' = [st \in StageNames |->
                         [w \in DOMAIN st_workers[st] |-> "unspawned"]]
    /\ agg_pc' = [g \in AggNames |-> "off"]
    /\ agg_calls' = 0
    /\ any_changed' = FALSE
    /\ UNCHANGED <<workspaces, temp_dir, ws_created>>

\* DaemonHandle::stop while the cycle runs.
CycleStop == Stop /\ a_pc # "idle"

InitCycle == CycleInit /\ ExecIdle /\ DaemonIdle /\ StageIdle /\ MutIdle /\ RestIdle
NextCycle ==
    \/ AEntry
    \/ ACreateTemp
    \/ ACopy
    \/ AConfig
    \/ ADiscover
    \/ ACollect
    \/ APhase1
    \/ \E st \in StageNames : StSpawn(st)
    \/ \E st \in StageNames : \E w \in DOMAIN st_workers[st] : StWorkerReturns(st, w)
    \/ \E st \in StageNames : StReturn(st)
    \/ AJoin1
    \/ APhase2
    \/ \E g \in AggNames : AggCall(g)
    \/ \E g \in AggNames : AggReturn(g)
    \/ AJoin2
    \/ APhase3
    \/ AMutationReturns
    \/ ANextRepo
    \/ CycleStop
SpecCycle == InitCycle /\ [][NextCycle]_vars

---------------------------------------------------------------------------
(* run_mutation_testing: the loop over the source files of the workspace,  *)
(* the check for stored results, mutation generation with its endpoint     *)
(* fallback, and the execution and saving of each mutation.                *)

\* Most files enumerated, most stored rows at entry, most mutations the
\* LLM returns for a file.
MaxMutFiles == 2
MaxMutRows == 2
MaxMutations == 2
MaxRules == 2

MutationRow(p, h, o) == [file_path |-> p, content_hash |-> h, test_outcome |-> o]

\* has_mutation_results_for_hash: COUNT(*) > 0 over the rows of the file
\* path and content hash  (db/mod.rs 485-505)
has_mutation_results_for_hash(rows, p, h) ==
    \E k \in 1..Len(rows) : rows[k].file_path = p /\ rows[k].content_hash = h

\* The value of the check
\* has_mutation_results_for_hash(...).await.unwrap_or(false)
\* (daemon/mod.rs 1668-1673)
AlreadyTested(outcome, rows, p, h) ==
    IF outcome = "Ok" THEN has_mutation_results_for_hash(rows, p, h) ELSE FALSE

\* The files enumerated over the projects: a file under two project roots
\* is enumerated twice.  Every file has the content hash "h1".
MutFileLists == UNION {[1..n -> 1..MaxMutFiles] : n \in 1..MaxMutFiles}

MutRowLists ==
    UNION {[1..n -> {MutationRow(p, h, "killed") :
                        p \in 1..MaxMutFiles, h \in {"h0", "h1"}}] :
           n \in 0..MaxMutRows}

\* A rule, its glob given by the set of paths it matches; its commands
\* are what the baseline and the mutation tests run.
MutationRule(g) == [glob |-> g]

\* glob_match::glob_match(&r.glob, &relative_path)
glob_match(rule, p) == p \in rule.glob

MutRuleLists ==
    UNION {[1..n -> {MutationRule(g) : g \in SUBSET (1..MaxMutFiles)}] :
           n \in 0..MaxRules}

\* valid_rules.iter().find(|r| glob_match(&r.glob, &relative_path)): the
\* first of the given rules, in their order, whose glob matches; 0 for None
\* (daemon/mod.rs 1631-1634)
FindRule(rules, indices, p) ==
    LET hits == {i \in 1..Len(indices) : glob_match(rules[indices[i]], p)}
    IN  IF hits = {} THEN 0
        ELSE indices[CHOOSE i \in hits : \A j \in hits : i <= j]

\* The indices of the rules that passed the baseline, in configuration
\* order  (daemon/mod.rs 1537-1573)
ValidRules(rules, passed) ==
    SelectSeq([k \in 1..Len(rules) |-> k], LAMBDA k : k \in passed)

MutEntry ==
    /\ m_pc = "start"
    /\ m_result = "none"
    /\ valid_rules = <<>>
    /\ m_rule = 0
    /\ tested_under = [p \in 1..MaxMutFiles |-> {}]
    /\ m_idx = 0
    /\ m_left = 0
    /\ m_outcome = "none"
    /\ mrows0 = mutation_rows
    /\ gen_calls = [p \in 1..MaxMutFiles |-> 0]

MutInit ==
    /\ m_files \in MutFileLists
    /\ m_rules \in {rs \in MutRuleLists : Len(rs) <= 1}
    /\ mutation_rows \in MutRowLists
    /\ MutEntry

\* The run that tells the rules apart: no stored row, any rules.
MutRulesInit ==
    /\ m_files \in MutFileLists
    /\ m_rules \in MutRuleLists
    /\ mutation_rows = <<>>
    /\ MutEntry

\* The frame of a step that touches neither the store nor the histories.
MFrame ==
    /\ MutFrame
    /\ UNCHANGED <<m_files, m_rules, mutation_rows, mrows0>>

\* update_daemon_status("processing", ...).await?  (daemon/mod.rs 1512-1517)
MStart ==
    /\ MFrame
    /\ m_pc = "start"
    /\ \E outcome \in StoreOutcomes :
          IF outcome = "Ok"
          THEN m_pc' = "rules" /\ UNCHANGED m_result
          ELSE m_pc' = "returned" /\ m_result' = "Err"
    /\ UNCHANGED <<valid_rules, m_rule, tested_under, m_idx, m_left,
                   m_outcome, gen_calls>>

\* No rule: return Ok(()).  The baseline build and test of every rule:
\* the rules that pass are the valid rules; none: return Ok(())
\* (daemon/mod.rs 1519-1581)
MRules ==
    /\ MFrame
    /\ m_pc = "rules"
    /\ IF m_rules = <<>>
       THEN m_pc' = "returned" /\ m_result' = "Ok" /\ UNCHANGED valid_rules
       ELSE \E passed \in SUBSET (1..Len(m_rules)) :
               /\ valid_rules' = ValidRules(m_rules, passed)
               /\ IF passed = {}
                  THEN m_pc' = "returned" /\ m_result' = "Ok"
                  ELSE m_pc' = "endpoint" /\ UNCHANGED m_result
    /\ UNCHANGED <<m_rule, tested_under, m_idx, m_left, m_outcome, gen_calls>>

\* find_available_endpoint and discover_projects(temp_repo_path)?
\* (daemon/mod.rs 1594-1604)
MEndpoint ==
    /\ MFrame
    /\ m_pc = "endpoint"
    /\ \/ m_pc' = "returned" /\ m_result' = "Ok" /\ UNCHANGED m_idx
       \/ m_pc' = "returned" /\ m_result' = "Err" /\ UNCHANGED m_idx
       \/ m_pc' = "file_loop" /\ m_idx' = 1 /\ UNCHANGED m_result
    /\ UNCHANGED <<valid_rules, m_rule, tested_under, m_left, m_outcome, gen_calls>>

\* The head of the loop over the files: the stop checks, a project's
\* find_source_files(...)?, then the file is skipped (no valid rule
\* matches it, it cannot be read, or its size is out of limits) or goes on
\* with the first valid rule that matches  (daemon/mod.rs 1613-1655)
MFileLoop ==
    /\ MFrame
    /\ m_pc = "file_loop"
    /\ IF m_idx > Len(m_files) \/ should_stop
       THEN m_pc' = "returned" /\ m_result' = "Ok" /\ UNCHANGED <<m_idx, m_rule>>
       ELSE \/ m_pc' = "returned" /\ m_result' = "Err" /\ UNCHANGED <<m_idx, m_rule>>
            \/ /\ m_rule' = 0
               /\ m_idx' = m_idx + 1
               /\ UNCHANGED <<m_pc, m_result>>
            \/ /\ FindRule(m_rules, valid_rules, m_files[m_idx]) # 0
               /\ m_rule' = FindRule(m_rules, valid_rules, m_files[m_idx])
               /\ m_pc' = "lookup"
               /\ UNCHANGED <<m_idx, m_result>>
    /\ UNCHANGED <<valid_rules, tested_under, m_left, m_outcome, gen_calls>>

\* The check for a file already tested with this hash
\* (daemon/mod.rs 1667-1679)
MLookup ==
    /\ MFrame
    /\ m_pc = "lookup"
    /\ \E outcome \in StoreOutcomes :
          IF AlreadyTested(outcome, mutation_rows, m_files[m_idx], "h1")
          THEN m_pc' = "file_loop" /\ m_idx' = m_idx + 1
          ELSE m_pc' = "generate" /\ UNCHANGED m_idx
    /\ UNCHANGED <<m_result, valid_rules, m_rule, tested_under, m_left, m_outcome,
                   gen_calls>>

\* What follows a successful analyze_and_generate_mutations returning n
\* mutations  (daemon/mod.rs 1737-1753)
Generated(n) ==
    IF n = 0
    THEN m_pc' = "file_loop" /\ m_idx' = m_idx + 1 /\ UNCHANGED m_left
    ELSE m_pc' = "mutation_loop" /\ m_left' = n /\ UNCHANGED m_idx

\* analyze_and_generate_mutations with the current endpoint
\* (daemon/mod.rs 1684-1699)
MGenerate ==
    /\ MFrame
    /\ m_pc = "generate"
    /\ gen_calls' = [gen_calls EXCEPT ![m_files[m_idx]] = @ + 1]
    /\ \E outcome \in LlmOutcomes :
          IF outcome = "Ok"
          THEN \E n \in 0..MaxMutations : Generated(n)
          ELSE m_pc' = "retry" /\ UNCHANGED <<m_idx, m_left>>
    /\ UNCHANGED <<m_result, valid_rules, m_rule, tested_under, m_outcome>>

\* The fallback: another available endpoint and one retry, else the file
\* is skipped  (daemon/mod.rs 1701-1735)
MRetry ==
    /\ MFrame
    /\ m_pc = "retry"
    /\ \/ /\ m_pc' = "file_loop"
          /\ m_idx' = m_idx + 1
          /\ UNCHANGED <<m_left, gen_calls>>
       \/ /\ gen_calls' = [gen_calls EXCEPT ![m_files[m_idx]] = @ + 1]
          /\ \E outcome \in LlmOutcomes :
                IF outcome = "Ok"
                THEN \E n \in 0..MaxMutations : Generated(n)
                ELSE /\ m_pc' = "file_loop"
                     /\ m_idx' = m_idx + 1
                     /\ UNCHANGED m_left
    /\ UNCHANGED <<m_result, valid_rules, m_rule, tested_under, m_outcome>>

\* for mutation in mutations { if should_stop { break } ...
\* (daemon/mod.rs 1758-1761)
MMutationLoop ==
    /\ MFrame
    /\ m_pc = "mutation_loop"
    /\ IF m_left = 0 \/ should_stop
       THEN m_pc' = "file_loop" /\ m_idx' = m_idx + 1 /\ m_left' = 0
       ELSE m_pc' = "execute" /\ UNCHANGED <<m_idx, m_left>>
    /\ m_outcome' = "none"
    /\ UNCHANGED <<m_result, valid_rules, m_rule, tested_under, gen_calls>>

\* if result.outcome == TestOutcome::CompileError { continue }
\* (daemon/mod.rs 1781-1788)
IsCompileError_Never(r) == FALSE
IsCompileError(r) == r = "compile_error"

\* execute_mutation_test with the rule's build and test commands: an Err
\* and a CompileError outcome go on to the next mutation without a row
\* (daemon/mod.rs 1764-1791)
MExecute ==
    /\ MFrame
    /\ m_pc = "execute"
    /\ \E r \in {"Err", "killed", "survived", "timeout", "compile_error"} :
          /\ m_outcome' = r
          /\ IF r = "Err" \/ IsCompileError(r)
             THEN m_pc' = "mutation_loop" /\ m_left' = m_left - 1
             ELSE m_pc' = "save" /\ UNCHANGED m_left
    /\ tested_under' = [tested_under EXCEPT ![m_files[m_idx]] = @ \cup {m_rule}]
    /\ UNCHANGED <<m_result, valid_rules, m_rule, m_idx, gen_calls>>

\* save_mutation_result, its failure only logged  (daemon/mod.rs 1814-1834)
MSave ==
    /\ MutFrame
    /\ m_pc = "save"
    /\ \E outcome \in StoreOutcomes :
          IF outcome = "Ok"
          THEN mutation_rows' =
                   Append(mutation_rows,
                          MutationRow(m_files[m_idx], "h1", m_outcome))
          ELSE UNCHANGED mutation_rows
    /\ m_pc' = "mutation_loop"
    /\ m_left' = m_left - 1
    /\ UNCHANGED <<m_result, m_files, m_rules, valid_rules, m_rule, tested_under,
                   m_idx, m_outcome, mrows0, gen_calls>>

\* DaemonHandle::stop while mutation testing runs.
MutStop == Stop /\ m_pc \notin {"idle", "returned"}

InitMut == MutInit /\ ExecIdle /\ DaemonIdle /\ StageIdle /\ CycleIdle /\ RestIdle
InitMutRules == MutRulesInit /\ ExecIdle /\ DaemonIdle /\ StageIdle /\ CycleIdle /\ RestIdle
NextMut ==
    \/ MStart
    \/ MRules
    \/ MEndpoint
    \/ MFileLoop
    \/ MLookup
    \/ MGenerate
    \/ MRetry
    \/ MMutationLoop
    \/ MExecute
    \/ MSave
    \/ MutStop
SpecMut == InitMut /\ [][NextMut]_vars
SpecMutRules == InitMutRules /\ [][NextMut]_vars

---------------------------------------------------------------------------
(* Paths.  A path is the sequence of its components.  The workspace copy   *)
(* lives at temp_dir.path(); discover_projects canonicalizes that path     *)
(* before it walks it, and every path handed to the store goes through     *)
(* translate_temp_to_original.                                             *)

IsPrefix(base, path) ==
    /\ Len(base) <= Len(path)
    /\ SubSeq(path, 1, Len(base)) = base

\* Path::strip_prefix: the remainder, or an error.
strip_prefix(path, base) ==
    IF IsPrefix(base, path)
    THEN [ok |-> TRUE, relative |-> SubSeq(path, Len(base) + 1, Len(path))]
    ELSE [ok |-> FALSE, relative |-> <<>>]

\* Path::join with a relative path.
join(base, relative) == base \o relative

\* Path::canonicalize: the path with the symbolic link resolved.
canonicalize(link, path) ==
    IF link.from # <<>> /\ IsPrefix(link.from, path)
    THEN link.to \o SubSeq(path, Len(link.from) + 1, Len(path))
    ELSE path

translate_temp_to_original(temp, original, file_path) ==
    LET stripped == strip_prefix(file_path, temp)
    IN  IF stripped.ok THEN join(original, stripped.relative) ELSE file_path

\* The directories the system's temporary directory may be, and the
\* symbolic links the file system may hold above them.
TempDirs == {<<"tmp", "noctum-a">>, <<"var", "tmp", "noctum-a">>}
Symlinks ==
    {[from |-> <<>>, to |-> <<>>],
     [from |-> <<"var">>, to |-> <<"private", "var">>]}
OriginalRepos == {<<"home", "dev", "repo">>, <<"srv", "repo">>}

\* Where a project's manifest may be, and a project's source files, both
\* relative.
ProjectDirs == {<<>>, <<"packages", "api">>}
SourceFiles == {<<"src", "lib.rs">>, <<"src", "main.rs">>}

PathInit ==
    /\ t_pc = "discover"
    /\ temp_repo_path \in TempDirs
    /\ original_repo_path \in OriginalRepos
    /\ symlink \in Symlinks
    /\ projects = {}
    /\ stored_paths = {}

\* discover_projects(temp_repo_path): the roots are below the canonical
\* path, or below the given path when canonicalize fails.
discover_projects ==
    /\ t_pc = "discover"
    /\ \E canonical \in BOOLEAN, dirs \in SUBSET ProjectDirs :
          LET repo_path == IF canonical
                           THEN canonicalize(symlink, temp_repo_path)
                           ELSE temp_repo_path
          IN  projects' = {join(repo_path, d) : d \in dirs}
    /\ t_pc' = "collect"
    /\ UNCHANGED <<temp_repo_path, original_repo_path, symlink, stored_paths>>
    /\ PathFrame

StoredPath(kind, file_path) ==
    [kind |-> kind,
     file_path |-> translate_temp_to_original(temp_repo_path,
                                              original_repo_path, file_path)]

\* analyze_repository_parallel: one source file of one project enters
\* file_data, whose paths the workers save.
CollectAnalysisFile ==
    /\ t_pc = "collect"
    /\ \E root \in projects, f \in SourceFiles :
          stored_paths' =
              stored_paths \cup {StoredPath("analysis", join(root, f))}
    /\ UNCHANGED <<t_pc, temp_repo_path, original_repo_path, symlink,
                   projects>>
    /\ PathFrame

\* run_mutation_testing: one source file of one project is tested and its
\* results saved.
CollectMutationFile ==
    /\ t_pc = "collect"
    /\ \E root \in projects, f \in SourceFiles :
          stored_paths' =
              stored_paths \cup {StoredPath("mutation", join(root, f))}
    /\ UNCHANGED <<t_pc, temp_repo_path, original_repo_path, symlink,
                   projects>>
    /\ PathFrame

InitPath ==
    /\ PathInit /\ ExecIdle /\ DaemonIdle /\ StageIdle /\ CycleIdle /\ MutIdle
    /\ SeqIdle /\ DiagIdle /\ MoreIdle
NextPath == discover_projects \/ CollectAnalysisFile \/ CollectMutationFile
SpecPath == InitPath /\ [][NextPath]_vars

---------------------------------------------------------------------------
(* The workspace under the mutation tests of one repository: the loop of   *)
(* run_mutation_testing calls execute_mutation_test once per mutation, and *)
(* each call writes the mutated file, runs the build and the test command  *)
(* as child processes under a timeout, and writes the original back.       *)

MaxSeqFiles == 2
MaxSeqTests == 3

SeqInit ==
    /\ q_pc = "loop"
    /\ q_file = 0
    /\ q_left \in 1..MaxSeqTests
    /\ q_attempt = 0
    /\ ws_mutated = {}
    /\ children = 0

\* for mutation in mutations { execute_mutation_test(...) }: the files come
\* in order, each with its mutations  (daemon/mod.rs 1758-1777)
QNextMutation ==
    /\ q_pc = "loop"
    /\ q_left > 0
    /\ \E f \in 1..MaxSeqFiles :
          /\ f >= q_file
          /\ q_file' = f
    /\ q_pc' = "write"
    /\ q_attempt' = 1
    /\ UNCHANGED <<q_left, ws_mutated, children>>
    /\ SeqFrame

\* The call is over: Ok or Err, the loop goes on with the next mutation.
QReturn ==
    /\ q_pc' = "loop"
    /\ q_left' = q_left - 1

\* tokio::fs::write(file_path, &mutated_content)?: a failed write leaves
\* the file as it was or partly written  (executor.rs 74-76)
QWriteMutated ==
    /\ q_pc = "write"
    /\ \/ /\ ws_mutated' = ws_mutated \cup {q_file}
          /\ q_pc' = "build"
          /\ UNCHANGED q_left
       \/ /\ \E partly \in BOOLEAN :
                ws_mutated' = IF partly THEN ws_mutated \cup {q_file}
                              ELSE ws_mutated
          /\ QReturn
    /\ UNCHANGED <<q_file, q_attempt, children>>
    /\ SeqFrame

\* What timeout(timeout, child.wait_with_output()) leaves behind: the child
\* has exited, or the wait was dropped at the timeout and the child, which
\* nothing kills, runs on  (executor.rs 329-364, 377-410)
ChildrenAfter(timed_out) == IF timed_out THEN children + 1 ELSE children

\* run_build_command  (executor.rs 79, 324-364)
QRunBuild ==
    /\ q_pc = "build"
    /\ \E timed_out \in BOOLEAN :
          /\ children' = ChildrenAfter(timed_out)
          /\ \E ok \in IF timed_out THEN {FALSE} ELSE BOOLEAN :
                q_pc' = IF ok THEN "test" ELSE "revert_build"
    /\ UNCHANGED <<q_file, q_left, q_attempt, ws_mutated>>
    /\ SeqFrame

\* run_tests_with_command  (executor.rs 82-89, 367-468)
QRunTests ==
    /\ q_pc = "test"
    /\ \E timed_out \in BOOLEAN : children' = ChildrenAfter(timed_out)
    /\ q_pc' = "revert_test"
    /\ UNCHANGED <<q_file, q_left, q_attempt, ws_mutated>>
    /\ SeqFrame

\* revert_file: the original is written back, or both writes fail and the
\* file stays as it is  (executor.rs 204-215)
Reverted(restored) == IF restored THEN ws_mutated \ {q_file} ELSE ws_mutated

\* revert_file after the tests, then return Ok(result)  (executor.rs 91-122)
QRevertAfterTest ==
    /\ q_pc = "revert_test"
    /\ \E restored \in BOOLEAN : ws_mutated' = Reverted(restored)
    /\ QReturn
    /\ UNCHANGED <<q_file, q_attempt, children>>
    /\ SeqFrame

\* revert_file after a failed build; then the next attempt with the fixed
\* mutation, or return  (executor.rs 124-200)
QRevertAfterBuild ==
    /\ q_pc = "revert_build"
    /\ \E restored \in BOOLEAN : ws_mutated' = Reverted(restored)
    /\ \/ /\ q_attempt < MAX_COMPILE_RETRIES
          /\ q_pc' = "write"
          /\ q_attempt' = q_attempt + 1
          /\ UNCHANGED q_left
       \/ QReturn /\ UNCHANGED q_attempt
    /\ UNCHANGED <<q_file, children>>
    /\ SeqFrame

\* A command left running at a timeout exits by itself.
QChildExits ==
    /\ children > 0
    /\ children' = children - 1
    /\ UNCHANGED <<q_pc, q_file, q_left, q_attempt, ws_mutated>>
    /\ SeqFrame

InitSeq ==
    /\ SeqInit /\ ExecIdle /\ DaemonIdle /\ StageIdle /\ CycleIdle /\ MutIdle
    /\ PathIdle /\ DiagIdle /\ MoreIdle
NextSeq ==
    \/ QNextMutation
    \/ QWriteMutated
    \/ QRunBuild
    \/ QRunTests
    \/ QRevertAfterTest
    \/ QRevertAfterBuild
    \/ QChildExits
SpecSeq == InitSeq /\ [][NextSeq]_vars

---------------------------------------------------------------------------
(* generate_single_diagram for one diagram type: the prompt goes to the    *)
(* endpoints in turn, a response is cleaned and validated, and the loop    *)
(* over `attempt` asks again with a fix prompt.  A response is one of      *)
(* three DOT texts: "blank" has no line of content, "malformed" has some   *)
(* and the parser rejects it, "wellformed" is accepted.                    *)

DOT_MAX_RETRIES == 3
DiagEndpoints == 2

DotTexts == {"blank", "malformed", "wellformed"}

\* validate_dot_syntax: "ok", or the error message  (diagram/mod.rs 82-101)
validate_dot_syntax(code) ==
    IF code = "blank" THEN "DOT diagram is empty"
    ELSE IF code = "malformed" THEN "DOT syntax error"
    ELSE "ok"

\* render_dot_to_svg fails when the same parser rejects the code
\* (diagram/mod.rs 105-122)
render_dot_to_svg(code) == IF code = "wellformed" THEN "svg" ELSE "error"

DiagInit ==
    /\ g_pc = "start"
    /\ g_result = "none"
    /\ g_endpoints \in 1..DiagEndpoints
    /\ g_attempt = 0
    /\ g_ep = 0
    /\ dot_code = "none"
    /\ last_error = "none"
    /\ responses = <<>>
    /\ diagram \in {"none", "old"}

GReturn(result) == g_pc' = "returned" /\ g_result' = result

\* get_repository_results(...)?; the returns without extractions
\* (daemon/mod.rs 1153-1193)
GStart ==
    /\ g_pc = "start"
    /\ \/ GReturn("Err")
       \/ GReturn("Ok")
       \/ g_pc' = "attempt" /\ UNCHANGED g_result
    /\ UNCHANGED <<g_endpoints, g_attempt, g_ep, dot_code, last_error,
                   responses, diagram>>
    /\ DiagFrame

\* for attempt in 0..=DOT_MAX_RETRIES  (daemon/mod.rs 1213-1223)
GAttempt ==
    /\ g_pc = "attempt"
    /\ IF g_attempt > DOT_MAX_RETRIES
       THEN g_pc' = "render" /\ UNCHANGED g_ep
       ELSE g_pc' = "endpoint" /\ g_ep' = 1
    /\ UNCHANGED <<g_result, g_endpoints, g_attempt, dot_code, last_error,
                   responses, diagram>>
    /\ DiagFrame

\* for endpoint in endpoints: is_available, generate, clean, validate
\* (daemon/mod.rs 1225-1264)
GEndpoint ==
    /\ g_pc = "endpoint"
    /\ IF g_ep > g_endpoints
       THEN /\ g_pc' = "check"
            /\ UNCHANGED <<g_ep, dot_code, last_error, responses>>
       ELSE \/ \* the endpoint is not available, or generate fails
               /\ g_ep' = g_ep + 1
               /\ UNCHANGED <<g_pc, dot_code, last_error, responses>>
            \/ \E cleaned \in DotTexts :
                  LET e == validate_dot_syntax(cleaned)
                  IN  /\ dot_code' = cleaned
                      /\ responses' = Append(responses, e = "ok")
                      /\ IF e = "ok"
                         THEN \* break
                              /\ g_pc' = "check"
                              /\ UNCHANGED <<g_ep, last_error>>
                         ELSE /\ last_error' = e
                              /\ g_ep' = g_ep + 1
                              /\ UNCHANGED g_pc
    /\ UNCHANGED <<g_result, g_endpoints, g_attempt, diagram>>
    /\ DiagFrame

\* if dot_code.is_some() && last_error.is_none() { break }
\* (daemon/mod.rs 1266-1279)
GCheck ==
    /\ g_pc = "check"
    /\ IF dot_code # "none" /\ last_error = "none"
       THEN g_pc' = "render" /\ UNCHANGED g_attempt
       ELSE g_pc' = "attempt" /\ g_attempt' = g_attempt + 1
    /\ UNCHANGED <<g_result, g_endpoints, g_ep, dot_code, last_error,
                   responses, diagram>>
    /\ DiagFrame

\* match (dot_code, last_error): render and save_diagram(...)?, or a warning
\* (daemon/mod.rs 1282-1332)
GRender ==
    /\ g_pc = "render"
    /\ IF dot_code # "none" /\ last_error = "none"
       THEN IF render_dot_to_svg(dot_code) = "error"
            THEN GReturn("Ok") /\ UNCHANGED diagram
            ELSE \/ diagram' = dot_code /\ GReturn("Ok")
                 \/ GReturn("Err") /\ UNCHANGED diagram
       ELSE GReturn("Ok") /\ UNCHANGED diagram
    /\ UNCHANGED <<g_endpoints, g_attempt, g_ep, dot_code, last_error,
                   responses>>
    /\ DiagFrame

InitDiag ==
    /\ DiagInit /\ ExecIdle /\ DaemonIdle /\ StageIdle /\ CycleIdle /\ MutIdle
    /\ PathIdle /\ SeqIdle /\ MoreIdle
NextDiag == GStart \/ GAttempt \/ GEndpoint \/ GCheck \/ GRender
SpecDiag == InitDiag /\ [][NextDiag]_vars

---------------------------------------------------------------------------
(* Calls of functions that only compute: the arguments are drawn when the  *)
(* call is made, the step applies the function.                            *)

\* The state all the other subsystems are in while one call is studied.
OldIdle ==
    /\ ExecIdle /\ DaemonIdle /\ StageIdle /\ CycleIdle /\ MutIdle
    /\ PathIdle /\ SeqIdle /\ DiagIdle

Hours == 0..(HoursPerDay - 1)

\* ScheduleConfig::is_hour_in_window is called on a schedule and an hour.
WindowInit ==
    /\ call_pc = "called"
    /\ call_args \in [start_hour : Hours, end_hour : Hours, hour : Hours]
    /\ call_result = <<>>

\* self.is_hour_in_window(hour)
IsHourInWindow ==
    /\ CallFrame
    /\ call_pc = "called"
    /\ call_result' =
          is_hour_in_window([start_hour |-> call_args.start_hour,
                             end_hour |-> call_args.end_hour],
                            call_args.hour)
    /\ call_pc' = "returned"
    /\ UNCHANGED call_args

InitWindow == WindowInit /\ OldIdle /\ StoreIdle /\ EndpointIdle
NextWindow == IsHourInWindow
SpecWindow == InitWindow /\ [][NextWindow]_vars

\* The file contents and the replacements apply_replacements is called on:
\* one-character `find` and `replace` texts on the first lines.
ApplyContents ==
    { <<"a">>, <<"a", "b", NL, "c">>, <<"a", NL, "a", NL>> }

MaxLine == 2
MaxReps == 2
Chars == {"a", "b", "c"}

RepPool ==
    { Rep(t[1], <<t[2]>>, <<t[3]>>) :
        t \in {u \in (1..MaxLine) \X Chars \X Chars : u[2] # u[3]} }

Listings == UNION {[1..n -> RepPool] : n \in 2..MaxReps}

\* The list is in ascending (descending) order of line_number.
Ascending(l) ==
    \A i \in 1..(Len(l) - 1) : l[i].line_number <= l[i + 1].line_number
Descending(l) ==
    \A i \in 1..(Len(l) - 1) : l[i].line_number >= l[i + 1].line_number

\* l2 lists the replacements of l1, in some order.
SameReplacements(l1, l2) ==
    /\ Len(l1) = Len(l2)
    /\ \E p \in [1..Len(l1) -> 1..Len(l1)] :
          /\ \A i, j \in 1..Len(l1) : p[i] = p[j] => i = j
          /\ l2 = [i \in 1..Len(l1) |-> l1[p[i]]]

\* A producer listed a mutation's replacements in ascending line order.
ApplyInit ==
    /\ call_pc = "called"
    /\ call_args \in [content : ApplyContents,
                      replacements : {l \in Listings : Ascending(l)}]
    /\ call_result = <<>>

\* apply_replacements(content, &replacements) on the ascending list
ApplyAscending ==
    /\ CallFrame
    /\ call_pc = "called"
    /\ call_result' =
          <<apply_replacements(call_args.content, call_args.replacements)>>
    /\ call_pc' = "again"
    /\ UNCHANGED call_args

\* apply_replacements on the same content and the same replacements, now
\* listed in descending line order
ApplyDescending ==
    /\ CallFrame
    /\ call_pc = "again"
    /\ \E l \in Listings :
          /\ Descending(l)
          /\ SameReplacements(call_args.replacements, l)
          /\ call_result' =
                Append(call_result, apply_replacements(call_args.content, l))
    /\ call_pc' = "returned"
    /\ UNCHANGED call_args

InitApply == ApplyInit /\ OldIdle /\ StoreIdle /\ EndpointIdle
NextApply == ApplyAscending \/ ApplyDescending
SpecApply == InitApply /\ [][NextApply]_vars

\* The contents apply_single_replacement is called on: with and without a
\* final newline, and with "\r\n" line endings.
SingleContents ==
    { <<"a">>,
      <<"a", "a", NL, "b">>,
      <<"a", "b", NL, "c", NL>>,
      <<"b", NL, "a", "c", "a", NL>>,
      <<"a", CR, NL, "b", CR, NL>> }

SingleInit ==
    /\ call_pc = "called"
    /\ call_args \in [content : SingleContents, replacement : RepPool]
    /\ call_result = <<>>

\* apply_single_replacement(content, &replacement)
ApplySingle ==
    /\ CallFrame
    /\ call_pc = "called"
    /\ call_result' =
          apply_single_replacement(call_args.content, call_args.replacement)
    /\ call_pc' = "returned"
    /\ UNCHANGED call_args

InitSingle == SingleInit /\ OldIdle /\ StoreIdle /\ EndpointIdle
NextSingle == ApplySingle
SpecSingle == InitSingle /\ [][NextSingle]_vars

\* The compiler outputs fix_mutation_prompt is called with: byte k of an
\* output is written k, so that an excerpt shows where it was taken from.
MinErrorLen == 1950
MaxErrorLen == 2050
CompileErrors == {[k \in 1..n |-> k] : n \in MinErrorLen..MaxErrorLen}

\* truncate_error: `&error[..max_len]` for an error longer than max_len
truncate_error(error, max_len) ==
    IF Len(error) <= max_len THEN error ELSE SubSeq(error, 1, max_len)

\* The limit fix_mutation_prompt passes to truncate_error.
PromptErrorLimit == 2000

PromptInit ==
    /\ call_pc = "called"
    /\ call_args \in [compile_error : CompileErrors]
    /\ call_result = <<>>

\* fix_mutation_prompt: the text put between the fences after
\* "Compile error:"
fix_mutation_prompt ==
    /\ CallFrame
    /\ call_pc = "called"
    /\ call_result' = truncate_error(call_args.compile_error, PromptErrorLimit)
    /\ call_pc' = "returned"
    /\ UNCHANGED call_args

InitPrompt == PromptInit /\ OldIdle /\ StoreIdle /\ EndpointIdle
NextPrompt == fix_mutation_prompt
SpecPrompt == InitPrompt /\ [][NextPrompt]_vars

\* The file contents mutations are generated for, and the raw replacements
\* of the LLM's answer: a line number that may be off, one-character texts.
GenContents ==
    { <<"a", NL, "a">>,
      <<"b", NL, "a", NL, "a", NL>>,
      <<"a", NL, "b", NL, "c", NL, "b", NL, "a">>,
      <<"c", NL, "b">> }

MaxRawLine == 5

RawPool ==
    { Rep(t[1], <<t[2]>>, <<t[3]>>) :
        t \in {u \in (1..MaxRawLine) \X Chars \X Chars : u[2] # u[3]} }

GenerateInit ==
    /\ call_pc = "called"
    /\ call_args \in [code : GenContents, raw : RawPool]
    /\ call_result = <<>>

\* analyze_and_generate_mutations validates the raw replacement: the
\* mutation is dropped, or returned with line_number set to the line found.
ValidateGenerated ==
    /\ CallFrame
    /\ call_pc = "called"
    /\ LET v == ValidateReplacement(call_args.code, call_args.raw)
       IN  IF v.ok
           THEN call_result' = <<v.r>> /\ call_pc' = "generated"
           ELSE call_result' = <<>> /\ call_pc' = "dropped"
    /\ UNCHANGED call_args

\* The executor applies the returned replacement to the same content.
ApplyGenerated ==
    /\ CallFrame
    /\ call_pc = "generated"
    /\ call_result' =
          Append(call_result,
                 apply_single_replacement(call_args.code, call_result[1]))
    /\ call_pc' = "returned"
    /\ UNCHANGED call_args

InitGenerate == GenerateInit /\ OldIdle /\ StoreIdle /\ EndpointIdle
NextGenerate == ValidateGenerated \/ ApplyGenerated
SpecGenerate == InitGenerate /\ [][NextGenerate]_vars

---------------------------------------------------------------------------
(* The store: the tables analysis_results, mutation_results and diagrams   *)
(* with their foreign key to repositories, and the calls on them.  Every   *)
(* SQL statement is one step.                                              *)

\* Repositories, files, analysis types and content hashes of the rows.
StoreRepos == {1, 2}
StorePaths == {1, 2}
StoreTypes == {"code_understanding", "architecture_file_analysis"}
StoreHashes == {"h1", "h2"}

\* Most ids handed out per table, and the last second of the clock.
MaxStoreRows == 3
MaxSeconds == 1

Tables == {"analysis_results", "mutation_results", "diagrams"}

\* The store with both repositories registered and no result row.
StoreInit ==
    /\ repo_rows = StoreRepos
    /\ analysis_results = <<>>
    /\ mutation_results = <<>>
    /\ diagrams = <<>>
    /\ sqlite_sequence = [t \in Tables |-> 0]
    /\ now = 0
    /\ db_pc = "idle"
    /\ db_args = <<>>
    /\ db_result = <<>>

\* FOREIGN KEY (repository_id) REFERENCES repositories(id), enforced on
\* every connection of the pool: an insert needs its repository row.
\* The rows of a table as a set.
RowSet(rows) == {rows[k] : k \in DOMAIN rows}

\* The pool's connections are opened with foreign keys switched on.
foreign_keys_Off == FALSE
foreign_keys == TRUE

ForeignKeyHolds(repository_id) == foreign_keys => repository_id \in repo_rows

\* No row of the three tables references the repository.
Unreferenced(id) ==
    \A r \in RowSet(analysis_results) \cup RowSet(mutation_results)
              \cup RowSet(diagrams) : r.repository_id # id

\* The rows of a table that do not belong to the repository.
DeleteWhere(rows, id) ==
    LET Keep(r) == r.repository_id # id IN SelectSeq(rows, Keep)

\* The row id the next insert into table t gets (AUTOINCREMENT: ids are
\* not handed out twice).
NextId(t) == sqlite_sequence[t] + 1

\* The seconds of the clock pass.
SecondPasses ==
    /\ StoreFrame
    /\ now < MaxSeconds
    /\ now' = now + 1
    /\ UNCHANGED <<repo_rows, analysis_results, mutation_results, diagrams,
                   sqlite_sequence, db_pc, db_args, db_result>>

\* save_analysis_result: INSERT INTO analysis_results ... RETURNING id
save_analysis_result(repository_id, file_path, analysis_type, content_hash) ==
    /\ StoreFrame
    /\ NextId("analysis_results") <= MaxStoreRows
    /\ ForeignKeyHolds(repository_id)
    /\ analysis_results' =
          Append(analysis_results,
                 [id |-> NextId("analysis_results"),
                  repository_id |-> repository_id,
                  file_path |-> file_path,
                  analysis_type |-> analysis_type,
                  content_hash |-> content_hash,
                  created_at |-> now])
    /\ sqlite_sequence' =
          [sqlite_sequence EXCEPT !["analysis_results"] = @ + 1]
    /\ UNCHANGED <<repo_rows, mutation_results, diagrams, now, db_pc, db_args,
                   db_result>>

\* save_mutation_result: INSERT INTO mutation_results ... RETURNING id
save_mutation_result(repository_id, test_outcome) ==
    /\ StoreFrame
    /\ NextId("mutation_results") <= MaxStoreRows
    /\ ForeignKeyHolds(repository_id)
    /\ mutation_results' =
          Append(mutation_results,
                 [id |-> NextId("mutation_results"),
                  repository_id |-> repository_id,
                  test_outcome |-> test_outcome])
    /\ sqlite_sequence' =
          [sqlite_sequence EXCEPT !["mutation_results"] = @ + 1]
    /\ UNCHANGED <<repo_rows, analysis_results, diagrams, now, db_pc, db_args,
                   db_result>>

\* save_diagram: INSERT INTO diagrams ... RETURNING id
save_diagram(repository_id) ==
    /\ StoreFrame
    /\ NextId("diagrams") <= MaxStoreRows
    /\ ForeignKeyHolds(repository_id)
    /\ diagrams' =
          Append(diagrams,
                 [id |-> NextId("diagrams"), repository_id |-> repository_id])
    /\ sqlite_sequence' = [sqlite_sequence EXCEPT !["diagrams"] = @ + 1]
    /\ UNCHANGED <<repo_rows, analysis_results, mutation_results, now, db_pc,
                   db_args, db_result>>

\* get_repository_results: the rows of (repository_id, analysis_type) whose
\* created_at is the greatest created_at of their file_path among the rows
\* of (repository_id, analysis_type).
get_repository_results(rows, repository_id, analysis_type) ==
    LET of_type == {r \in RowSet(rows) :
                       /\ r.repository_id = repository_id
                       /\ r.analysis_type = analysis_type}
        max_created(p) ==
            CHOOSE c \in {r.created_at : r \in {x \in of_type : x.file_path = p}} :
                \A r \in of_type : r.file_path = p => r.created_at <= c
    IN  {r \in of_type : r.created_at = max_created(r.file_path)}

\* get_latest_file_hash on the store's table: ORDER BY id DESC LIMIT 1.
get_latest_file_hash(rows, repository_id, file_path, analysis_type) ==
    LET found == {r \in RowSet(rows) :
                     /\ r.repository_id = repository_id
                     /\ r.file_path = file_path
                     /\ r.analysis_type = analysis_type}
    IN  IF found = {} THEN "None"
        ELSE (CHOOSE r \in found : \A x \in found : x.id <= r.id).content_hash

\* Some caller saves an analysis result.
SaveAnalysisResult ==
    \E r \in StoreRepos, p \in StorePaths, t \in StoreTypes, h \in StoreHashes :
        /\ db_pc = "idle"
        /\ save_analysis_result(r, p, t, h)

\* Some caller asks for the results of a repository and an analysis type.
GetRepositoryResults ==
    /\ StoreFrame
    /\ db_pc = "idle"
    /\ \E r \in StoreRepos, t \in StoreTypes :
          /\ db_args' = [repository_id |-> r, analysis_type |-> t]
          /\ db_result' = get_repository_results(analysis_results, r, t)
    /\ db_pc' = "returned"
    /\ UNCHANGED <<repo_rows, analysis_results, mutation_results, diagrams,
                   sqlite_sequence, now>>

InitResults == StoreInit /\ OldIdle /\ CallIdle /\ EndpointIdle
NextResults == SaveAnalysisResult \/ SecondPasses \/ GetRepositoryResults
SpecResults == InitResults /\ [][NextResults]_vars

\* The variants of TestOutcome and their Display strings.
TestOutcome == {"Killed", "Survived", "Timeout", "CompileError"}

to_string_Variant(outcome) == outcome
to_string(outcome) ==
    CASE outcome = "Killed"       -> "killed"
      [] outcome = "Survived"     -> "survived"
      [] outcome = "Timeout"      -> "timeout"
      [] outcome = "CompileError" -> "compile_error"

\* Number of rows of `results` whose test_outcome is `outcome`.
Tally(results, outcome) ==
    Cardinality({r \in results : r.test_outcome = outcome})

\* get_mutation_summary: count the repository's rows, and the rows of
\* each of the four known outcome strings.
get_mutation_summary(rows, repository_id) ==
    LET results == {r \in RowSet(rows) : r.repository_id = repository_id}
    IN  [total         |-> Cardinality(results),
         killed        |-> Tally(results, "killed"),
         survived      |-> Tally(results, "survived"),
         timeout       |-> Tally(results, "timeout"),
         compile_error |-> Tally(results, "compile_error")]

\* run_mutation_testing saves a result: `&result.outcome.to_string()`.
SaveMutationResult ==
    \E r \in StoreRepos, outcome \in TestOutcome :
        /\ db_pc = "idle"
        /\ save_mutation_result(r, to_string(outcome))

\* Some caller asks for the mutation summary of a repository.
GetMutationSummary ==
    /\ StoreFrame
    /\ db_pc = "idle"
    /\ \E r \in StoreRepos :
          /\ db_args' = [repository_id |-> r]
          /\ db_result' = get_mutation_summary(mutation_results, r)
    /\ db_pc' = "returned"
    /\ UNCHANGED <<repo_rows, analysis_results, mutation_results, diagrams,
                   sqlite_sequence, now>>

InitSummary == StoreInit /\ OldIdle /\ CallIdle /\ EndpointIdle
NextSummary == SaveMutationResult \/ GetMutationSummary
SpecSummary == InitSummary /\ [][NextSummary]_vars

\* delete_repository(id), statement by statement, while a processing cycle
\* goes on saving rows.

\* A statement of delete_repository fails: `?` returns the error.
DeleteFails ==
    /\ db_result' = [ok |-> FALSE, value |-> FALSE]
    /\ db_pc' = "returned"

\* The web handler calls delete_repository(id).
DeleteCall ==
    /\ StoreFrame
    /\ db_pc = "idle"
    /\ \E id \in StoreRepos : db_args' = [id |-> id]
    /\ db_pc' = "diagrams"
    /\ UNCHANGED <<repo_rows, analysis_results, mutation_results, diagrams,
                   sqlite_sequence, now, db_result>>

\* DELETE FROM diagrams WHERE repository_id = ?
DeleteDiagrams ==
    /\ StoreFrame
    /\ db_pc = "diagrams"
    /\ \/ /\ diagrams' = DeleteWhere(diagrams, db_args.id)
          /\ db_pc' = "mutation_results"
          /\ UNCHANGED db_result
       \/ DeleteFails /\ UNCHANGED diagrams
    /\ UNCHANGED <<repo_rows, analysis_results, mutation_results,
                   sqlite_sequence, now, db_args>>

\* DELETE FROM mutation_results WHERE repository_id = ?
DeleteMutationResults ==
    /\ StoreFrame
    /\ db_pc = "mutation_results"
    /\ \/ /\ mutation_results' = DeleteWhere(mutation_results, db_args.id)
          /\ db_pc' = "analysis_results"
          /\ UNCHANGED db_result
       \/ DeleteFails /\ UNCHANGED mutation_results
    /\ UNCHANGED <<repo_rows, analysis_results, diagrams, sqlite_sequence, now,
                   db_args>>

\* DELETE FROM analysis_results WHERE repository_id = ?
DeleteAnalysisResults ==
    /\ StoreFrame
    /\ db_pc = "analysis_results"
    /\ \/ /\ analysis_results' = DeleteWhere(analysis_results, db_args.id)
          /\ db_pc' = "repositories"
          /\ UNCHANGED db_result
       \/ DeleteFails /\ UNCHANGED analysis_results
    /\ UNCHANGED <<repo_rows, mutation_results, diagrams, sqlite_sequence, now,
                   db_args>>

\* DELETE FROM repositories WHERE id = ?; Ok(rows_affected > 0).  The
\* statement fails while a row still references the repository.
DeleteRepositoryRow ==
    /\ StoreFrame
    /\ db_pc = "repositories"
    /\ \/ /\ foreign_keys => Unreferenced(db_args.id)
          /\ repo_rows' = repo_rows \ {db_args.id}
          /\ db_result' = [ok |-> TRUE, value |-> db_args.id \in repo_rows]
          /\ db_pc' = "returned"
       \/ DeleteFails /\ UNCHANGED repo_rows
    /\ UNCHANGED <<analysis_results, mutation_results, diagrams,
                   sqlite_sequence, now, db_args>>

\* The cycle's workers and stages save rows of a repository.
CycleSavesAnalysis ==
    \E r \in StoreRepos :
        /\ sqlite_sequence["analysis_results"] < MaxStoreRows
        /\ save_analysis_result(r, 1, "code_understanding", "h1")

CycleSavesMutation ==
    \E r \in StoreRepos :
        /\ sqlite_sequence["mutation_results"] < MaxStoreRows
        /\ save_mutation_result(r, "killed")

CycleSavesDiagram ==
    \E r \in StoreRepos :
        /\ sqlite_sequence["diagrams"] < MaxStoreRows
        /\ save_diagram(r)

InitDelete == StoreInit /\ OldIdle /\ CallIdle /\ EndpointIdle
NextDelete ==
    \/ DeleteCall
    \/ DeleteDiagrams
    \/ DeleteMutationResults
    \/ DeleteAnalysisResults
    \/ DeleteRepositoryRow
    \/ CycleSavesAnalysis
    \/ CycleSavesMutation
    \/ CycleSavesDiagram
SpecDelete == InitDelete /\ [][NextDelete]_vars

---------------------------------------------------------------------------
(* The endpoints of a processing cycle: process_tasks reads the enabled    *)
(* endpoints from the shared Config, the web handlers write the Config.    *)

MaxConfigEndpoints == 2
MaxCycles == 2
Urls == {"u1", "u2"}

OllamaEndpoint(url, enabled) == [url |-> url, enabled |-> enabled]

\* .iter().filter(|e| e.enabled).cloned().collect()
EnabledEndpoints(config) ==
    LET IsEnabled(e) == e.enabled IN SelectSeq(config, IsEnabled)

\* The list without its element at `index` (Vec::remove).
Remove(list, index) ==
    SubSeq(list, 1, index - 1) \o SubSeq(list, index + 1, Len(list))

\* The endpoints a stage of the cycle is handed: `&endpoints`.
CycleEndpoints_Fresh == EnabledEndpoints(config_endpoints)
CycleEndpoints == endpoints

EndpointInit ==
    /\ config_endpoints \in
          {<<OllamaEndpoint("u1", TRUE)>>,
           <<OllamaEndpoint("u1", TRUE), OllamaEndpoint("u2", FALSE)>>}
    /\ endpoints = <<>>
    /\ n_pc = "start"
    /\ n_cycles = 1
    /\ config_at_start = <<>>
    /\ used = {}

\* handlers::add_endpoint
add_endpoint ==
    /\ EndpointFrame
    /\ Len(config_endpoints) < MaxConfigEndpoints
    /\ \E url \in Urls :
          config_endpoints' = Append(config_endpoints, OllamaEndpoint(url, TRUE))
    /\ UNCHANGED <<endpoints, n_pc, n_cycles, config_at_start, used>>

\* handlers::update_endpoint
update_endpoint ==
    /\ EndpointFrame
    /\ \E index \in DOMAIN config_endpoints, url \in Urls, enabled \in BOOLEAN :
          config_endpoints' =
              [config_endpoints EXCEPT ![index] = OllamaEndpoint(url, enabled)]
    /\ UNCHANGED <<endpoints, n_pc, n_cycles, config_at_start, used>>

\* handlers::delete_endpoint
delete_endpoint ==
    /\ EndpointFrame
    /\ \E index \in DOMAIN config_endpoints :
          config_endpoints' = Remove(config_endpoints, index)
    /\ UNCHANGED <<endpoints, n_pc, n_cycles, config_at_start, used>>

\* process_tasks reads the enabled endpoints; without any it returns.
ReadEndpoints ==
    /\ EndpointFrame
    /\ n_pc = "start"
    /\ endpoints' = EnabledEndpoints(config_endpoints)
    /\ config_at_start' = config_endpoints
    /\ n_pc' = IF endpoints' = <<>> THEN "returned" ELSE "analyzing"
    /\ UNCHANGED <<config_endpoints, n_cycles, used>>

\* A stage of the cycle sends a request to one of the endpoints it was
\* handed.
UseEndpoint ==
    /\ EndpointFrame
    /\ n_pc = "analyzing"
    /\ \E k \in DOMAIN CycleEndpoints : used' = used \cup {CycleEndpoints[k]}
    /\ UNCHANGED <<config_endpoints, endpoints, n_pc, n_cycles, config_at_start>>

\* The loop over the repositories ends and process_tasks returns.
CycleEnds ==
    /\ EndpointFrame
    /\ n_pc = "analyzing"
    /\ n_pc' = "returned"
    /\ UNCHANGED <<config_endpoints, endpoints, n_cycles, config_at_start, used>>

\* Daemon::run calls process_tasks again.
NextCycleStarts ==
    /\ EndpointFrame
    /\ n_pc = "returned"
    /\ n_cycles < MaxCycles
    /\ n_cycles' = n_cycles + 1
    /\ n_pc' = "start"
    /\ endpoints' = <<>>
    /\ used' = {}
    /\ UNCHANGED <<config_endpoints, config_at_start>>

InitEndpoints == EndpointInit /\ OldIdle /\ CallIdle /\ StoreIdle
NextEndpoints ==
    \/ add_endpoint
    \/ update_endpoint
    \/ delete_endpoint
    \/ ReadEndpoints
    \/ UseEndpoint
    \/ CycleEnds
    \/ NextCycleStarts
SpecEndpoints == InitEndpoints /\ [][NextEndpoints]_vars

---------------------------------------------------------------------------
(* C1: when execute_mutation_test returns, with any outcome or with an     *)
(* error from any step inside it, the target file holds the bytes it held  *)
(* on entry.                                                               *)
C1_FileRestoredOnReturn ==
    e_pc = "done" => disk = entry_content

---------------------------------------------------------------------------
(* C5: after DaemonHandle::stop() the daemon loop exits with status        *)
(* Stopping: whenever Daemon::run has returned after a stop request, the   *)
(* status is Stopping.                                                     *)
C5_StopExitsStopping ==
    (d_pc = "exited" /\ should_stop) => status = "Stopping"

\* Between the return of a manually triggered cycle and the next branch
\* the loop takes.
AfterManualCycle ==
    /\ cycle_kind = "manual"
    /\ d_pc \in {"select", "check_stop", "check_trigger", "match"}

C7_TickTransitions ==
    [][ (d_pc = "match" /\ d_pc' # "match") =>
          LET inw == is_hour_in_window(schedule, now_hour)
          IN  /\ (status = "Waiting" /\ inw)
                  => (status' = "Processing" /\ d_pc' = "cycle"
                      /\ p_pc' = "p_start")
              /\ (status = "Processing" /\ ~inw)
                  => (status' = "Waiting" /\ d_pc' = "select"
                      /\ p_pc' = p_pc)
              /\ (status = "Waiting" /\ ~inw)
                  => (status' = "Waiting" /\ d_pc' = "select"
                      /\ p_pc' = p_pc) ]_vars

\* A tick has left the window: the status went from Processing to Waiting
\* and no cycle was started.
C7_Witness ==
    /\ d_pc = "select"
    /\ cycle_kind = "none"
    /\ prior_status = "Processing"
    /\ ~in_window
    /\ status = "Waiting"

\* The repositories of a sequence of indices.
Range(seq) == {seq[k] : k \in 1..Len(seq)}

\* The repositories analyze_repository_parallel was called for.
Analysed == {a.repo : a \in analysed}

(* C10: a failure of a Store operation during a cycle never terminates the *)
(* daemon loop (Daemon::run never returns an error) and never aborts the   *)
(* remaining work of the cycle (a cycle that read the repository list and  *)
(* was not asked to stop returns only after every enabled repository was   *)
(* analysed).                                                              *)
C10_StoreFailureTolerated ==
    /\ run_result # "Err"
    /\ (p_pc = "returned" /\ repos_listed /\ ~should_stop)
           => Analysed = Range(enabled_repos)

(* C4: a file whose latest stored row of the stage's analysis type carries *)
(* the file's current content hash gets no LLM call and no new row.        *)
NewRows == SubSeq(analysis_rows, Len(rows0) + 1, Len(analysis_rows))
C4_UnchangedFileSkipped ==
    \A k \in 1..Len(file_data) :
        LatestHash(rows0, file_data[k].path, StageType) = file_data[k].hash
            => /\ llm_calls[k] = 0
               /\ \A r \in Range(NewRows) : r.file_path # file_data[k].path

(* C8: a per-file stage terminates: once stop is requested and no step of  *)
(* the stage function or of its workers remains, the stage function has    *)
(* returned.                                                               *)
C8_StageTerminates ==
    (should_stop /\ ~ ENABLED StageStep) => s_pc \in {"returned", "idle"}

C9_AggregationAfterWorkers ==
    (\E g \in AggNames : agg_pc[g] = "running")
        => \A st \in StageNames :
               \A w \in DOMAIN st_workers[st] : st_workers[st][w] # "running"

\* An aggregation call issued after the diagram extraction workers returned.
C9_Witness ==
    /\ agg_calls > 0
    /\ agg_pc["diagrams"] = "running"
    /\ \A w \in DOMAIN st_workers["diagram"] : st_workers["diagram"][w] = "done"

(* C3: a file for which the store held a MutationResult row of its current *)
(* content hash when mutation testing began gets no mutation-generation    *)
(* LLM call and no further row, also when the store lookup fails.          *)
NewMutationRows == SubSeq(mutation_rows, Len(mrows0) + 1, Len(mutation_rows))
C3_TestedFileSkipped ==
    \A p \in 1..MaxMutFiles :
        has_mutation_results_for_hash(mrows0, p, "h1")
            => /\ gen_calls[p] = 0
               /\ ~ has_mutation_results_for_hash(NewMutationRows, p, "h1")

(* C11: a failure of both writes of revert_file is surfaced: when          *)
(* execute_mutation_test returns a normal outcome (Ok), the file holds     *)
(* its content on entry again.                                             *)
C11_RevertFailureSurfaced ==
    (e_pc = "done" /\ e_result.kind = "Ok") => disk = entry_content

(* C12: every MutationResult row written by mutation testing has outcome   *)
(* killed, survived or timeout, never compile_error.                       *)
C12_NoCompileErrorRows ==
    \A r \in Range(NewMutationRows) :
        r.test_outcome \in {"killed", "survived", "timeout"}

\* A mutation test has just ended in a compile error, after a row of this
\* run was saved.
C12_Witness ==
    /\ m_pc = "mutation_loop"
    /\ m_outcome = "compile_error"
    /\ NewMutationRows # <<>>

(* C13: a file is tested only under the first rule, in configuration       *)
(* order, whose glob matches it; when that rule failed its baseline the    *)
(* file is tested under no rule.                                           *)
AllRules == [k \in 1..Len(m_rules) |-> k]
C13_FirstMatchingRuleOnly ==
    \A p \in 1..MaxMutFiles :
        \A k \in tested_under[p] : k = FindRule(m_rules, AllRules, p)


---------------------------------------------------------------------------
(* C14: every file_path handed to the store, for an analysis result or a   *)
(* mutation result, lies under the original repository root and not under  *)
(* the temporary workspace, whichever project root the file was found      *)
(* under.                                                                  *)
C14_StoredPathsAreOriginal ==
    \A s \in stored_paths :
        /\ IsPrefix(original_repo_path, s.file_path)
        /\ ~ IsPrefix(temp_repo_path, s.file_path)
        /\ ~ IsPrefix(canonicalize(symlink, temp_repo_path), s.file_path)

---------------------------------------------------------------------------
(* C15: whenever process_tasks returns, on any of its return paths, the    *)
(* status recorded in the store's daemon_state is idle.                    *)
C15_IdleOnReturn == p_pc = "returned" => db_status = "idle"

---------------------------------------------------------------------------
(* C16: when the analysis of a repository fails (its copy into a workspace *)
(* included), every later enabled repository of the same cycle is still    *)
(* analysed: a cycle that was not asked to stop does not return with a     *)
(* repository left out after a failed one.                                 *)
LaterRepos(repo) ==
    {enabled_repos[k] : k \in {j \in 1..Len(enabled_repos) :
                                  enabled_repos[j] > repo}}
C16_FailureSkipsOneRepository ==
    (p_pc = "returned" /\ repos_listed /\ ~should_stop)
        => \A a \in analysed :
               a.result = "Err" => LaterRepos(a.repo) \subseteq Analysed

---------------------------------------------------------------------------
(* C18: a manual trigger that is pending while the daemon is not stopping  *)
(* ends the sleep that follows a cycle: with the trigger set, the sleep of *)
(* process_tasks does not go on for another second.                        *)
C18_TriggerInterruptsSleep ==
    [][(p_pc = "p_sleep" /\ trigger_scan /\ ~should_stop)
           => ~ (sleep_left' < sleep_left)]_vars

---------------------------------------------------------------------------
(* C19: an aggregation of phase 2 (architecture summary, diagrams) is      *)
(* started only in a cycle in which some per-file worker stored a new      *)
(* result row.                                                             *)
C19_AggregationOnlyAfterNewRow ==
    (\E g \in AggNames : agg_pc[g] = "running")
        => \E st \in StageNames : st_stored[st]

---------------------------------------------------------------------------
(* C17: mutation tests never overlap on a workspace: at most one workspace *)
(* file differs from its copy, a file differs only while the call testing  *)
(* it is in progress, and at most one build or test command runs, that of  *)
(* the call in progress.                                                   *)
InCall == q_pc \in {"write", "build", "test", "revert_test", "revert_build"}
C17_OneMutationTestAtATime ==
    /\ Cardinality(ws_mutated) <= 1
    /\ ws_mutated # {} => (InCall /\ ws_mutated = {q_file})
    /\ q_pc \in {"loop", "write", "build", "test"} => children = 0

---------------------------------------------------------------------------
(* C20: in diagram generation, when a response fails DOT validation and a  *)
(* later response passes it, the retry loop ends there (no further         *)
(* response is asked for) and, unless the store fails, that valid DOT is   *)
(* the diagram saved.                                                      *)
ValidAfterInvalid(k) ==
    /\ responses[k]
    /\ \E i \in 1..(k - 1) : ~ responses[i]
C20_ValidRetryIsPersisted ==
    \A k \in 1..Len(responses) :
        ValidAfterInvalid(k)
            => /\ k = Len(responses)
               /\ (g_pc = "returned" /\ g_result = "Ok")
                      => diagram = dot_code

---------------------------------------------------------------------------
(* C21: an analysis whose flag the workspace's .noctum.toml does not set   *)
(* to true (the file missing, unreadable, blank or unparsable counts as no *)
(* flag set) starts no stage, spawns no worker, stores no row, runs no     *)
(* aggregation and no mutation testing; with no flag set the call returns  *)
(* before it looks at the repository's files.                              *)
FlagSet(flag) ==
    /\ config_file # <<>>
    /\ config_file.kind = "toml"
    /\ config_file.flags[flag]
StageOff(st) ==
    /\ st_pc[st] \notin {"entered", "spawned"}
    /\ \A w \in DOMAIN st_workers[st] : st_workers[st][w] = "unspawned"
    /\ ~ st_stored[st]
    /\ ~ st_changed[st]
C21_DisabledAnalysisDoesNothing ==
    /\ ~ FlagSet("enable_code_analysis") => StageOff("code")
    /\ ~ FlagSet("enable_architecture_analysis")
           => /\ StageOff("arch")
              /\ StageOff("doc")
              /\ agg_pc["arch_summary"] # "running"
    /\ ~ FlagSet("enable_diagram_creation")
           => /\ StageOff("diagram")
              /\ agg_pc["diagrams"] # "running"
    /\ ~ FlagSet("enable_mutation_testing") => a_pc # "mutation"
    /\ (\A flag \in DOMAIN DefaultConfig : ~ FlagSet(flag))
           => a_pc \in {"idle", "entry", "create_temp", "copy",
                        "config", "returned"}

\* Mutation testing runs after the diagram stage stored rows, with code
\* analysis and architecture analysis disabled.
C21_Witness ==
    /\ a_pc = "mutation"
    /\ ~ FlagSet("enable_code_analysis")
    /\ ~ FlagSet("enable_architecture_analysis")
    /\ st_stored["diagram"]
    /\ StageOff("code")

\* History read off `commands`: a build attempt of this call succeeded.
Built == \E i \in DOMAIN commands : commands[i] = "build_ok"

(* C22: a mutation is reported Survived only if the mutated code built and *)
(* the test command completed within the timeout with exit status success; *)
(* a test run that exits with failure or times out is never Survived.      *)
C22_SurvivedOnlyIfTestsPassed ==
    (e_pc = "done" /\ e_result.outcome = "survived")
        => (Built /\ test_exit.exit = "zero")

\* Number of entries `ev` among the first n entries of `commands`.
Issued(ev, n) == Cardinality({i \in 1..n : commands[i] = ev})

(* C29: in one call of execute_mutation_test the build command runs at    *)
(* most 3 times, a fix request is sent at most 2 times and never after    *)
(* the third failed build, and the test command runs at most once and     *)
(* only right after a build attempt that succeeded.                       *)
C29_BoundedBuildsFixesTests ==
    LET n == Len(commands)
    IN  /\ Issued("build_ok", n) + Issued("build_err", n) <= 3
        /\ Issued("fix", n) <= 2
        /\ \A i \in 1..n : commands[i] = "fix" => Issued("build_err", i) < 3
        /\ Issued("test", n) <= 1
        /\ \A i \in 1..n : commands[i] = "test" =>
              i > 1 /\ commands[i - 1] = "build_ok"

\* Two failed builds with their fix requests, a third build that succeeds,
\* and the test run.
C29_Witness ==
    /\ e_pc = "done"
    /\ commands = <<"build_err", "fix", "build_err", "fix", "build_ok", "test">>

(* C30: the call returns CompileError only when no build attempt          *)
(* succeeded; whenever a build attempt succeeded the returned outcome is  *)
(* Survived, Killed or Timeout.                                           *)
C30_CompileErrorOnlyWithoutBuild ==
    e_pc = "done" =>
        /\ e_result.outcome = "compile_error" => ~Built
        /\ Built => e_result.outcome \in {"survived", "killed", "timeout"}

(* C25: for start, end and hour in 0..23, is_hour_in_window returns       *)
(* start <= hour < end when start <= end and (hour >= start or            *)
(* hour < end) otherwise; start = end is the empty window; the window     *)
(* 22..6 holds 22, 23, 0 and 5 and does not hold 6, 12 and 21.            *)
C25_HourInWindow ==
    call_pc = "returned" =>
        LET start == call_args.start_hour
            end   == call_args.end_hour
            hour  == call_args.hour
        IN  /\ start <= end => (call_result <=> (start <= hour /\ hour < end))
            /\ start > end => (call_result <=> (hour >= start \/ hour < end))
            /\ start = end => ~call_result
            /\ start = 22 /\ end = 6 /\ hour \in {22, 23, 0, 5} => call_result
            /\ start = 22 /\ end = 6 /\ hour \in {6, 12, 21} => ~call_result

\* The overnight window 22..6 was asked about hour 5, which it holds.
C25_Witness ==
    /\ call_pc = "returned"
    /\ call_args = [start_hour |-> 22, end_hour |-> 6, hour |-> 5]
    /\ call_result = TRUE

(* C27: apply_replacements gives the same result for a mutation whose     *)
(* replacements are listed in ascending line order and for the same       *)
(* replacements listed in descending line order, also when two of them    *)
(* carry the same line_number.                                            *)
C27_ListingOrderIrrelevant ==
    (call_pc = "returned" /\ Len(call_result) = 2)
        => call_result[1] = call_result[2]

(* C23: after any sequence of save_analysis_result calls,                 *)
(* get_repository_results(repo, type) returns exactly one row for each    *)
(* file_path that has a row of that repository and type, the most         *)
(* recently inserted one, whose content_hash is what get_latest_file_hash *)
(* returns for the file, also when several rows of a file were inserted   *)
(* within the same second.                                                *)
C23_OneLatestRowPerFile ==
    db_pc = "returned" =>
        LET repo == db_args.repository_id
            type == db_args.analysis_type
            of_type == {r \in RowSet(analysis_results) :
                           r.repository_id = repo /\ r.analysis_type = type}
        IN  \A p \in {r.file_path : r \in of_type} :
               LET returned == {r \in db_result : r.file_path = p}
               IN  /\ Cardinality(returned) = 1
                   /\ \A r \in returned :
                         /\ \A x \in of_type : x.file_path = p => x.id <= r.id
                         /\ r.content_hash =
                               get_latest_file_hash(analysis_results, repo, p,
                                                    type)

(* C26: the MutationSummary that get_mutation_summary returns satisfies   *)
(* killed + survived + timeout + compile_error = total.                   *)
C26_SummaryTotals ==
    db_pc = "returned" =>
        db_result.killed + db_result.survived + db_result.timeout
            + db_result.compile_error = db_result.total

\* A summary over three rows of one repository with different outcomes.
C26_Witness ==
    /\ db_pc = "returned"
    /\ db_result.total = 3
    /\ db_result.killed = 1
    /\ db_result.compile_error = 1

Elements(list) == {list[k] : k \in DOMAIN list}

(* C28: the endpoints a processing cycle uses are the enabled endpoints   *)
(* of the configuration as it was when the cycle started; a write to the  *)
(* configuration during the cycle does not change them, and the next      *)
(* cycle reads the configuration as written.                              *)
C28_EndpointsFixedForCycle ==
    n_pc \in {"analyzing", "returned"} =>
        /\ endpoints = EnabledEndpoints(config_at_start)
        /\ used \subseteq Elements(EnabledEndpoints(config_at_start))

\* The second cycle runs on what was written during the first, and the
\* configuration has been written again since it started.
C28_Witness ==
    /\ n_cycles = 2
    /\ n_pc = "analyzing"
    /\ used = {OllamaEndpoint("u2", TRUE)}
    /\ config_endpoints = <<OllamaEndpoint("u1", TRUE)>>

(* C31: whenever execute_mutation_test issues a fix request after a       *)
(* failed build, and at the start of every retry attempt, the file on     *)
(* disk equals the original content.                                      *)
C31_RevertedBeforeFixAndRetry ==
    (e_pc = "fix" \/ (e_pc = "apply" /\ attempt > 1))
        => disk = original_content

(* C40: in every attempt of execute_mutation_test the content written to  *)
(* the file is the current mutation applied to the original content       *)
(* captured on entry, never to content holding an earlier mutation.       *)
C40_MutationAppliedToOriginal ==
    e_pc \in {"write", "build", "test"} =>
        LET r == apply_replacements(entry_content, current_mutation)
        IN  /\ r.ok
            /\ mutated_content = r.content
            /\ e_pc \in {"build", "test"} => disk = r.content

\* A retry with a fixed mutation has been written to the file.
C40_Witness ==
    /\ e_pc = "build"
    /\ attempt > 1
    /\ disk # entry_content
    /\ disk = mutated_content

\* `new` is `old` with the occurrence of `find` at position i replaced by
\* `replace` and every other character, line terminators included, kept.
ReplacedAt(old, new, i, find, replace) ==
    /\ SubSeq(old, i, i + Len(find) - 1) = find
    /\ new = SubSeq(old, 1, i - 1) \o replace
                \o SubSeq(old, i + Len(find), Len(old))

\* No earlier occurrence of `find` lies on the line of position i.
FirstOnItsLine(old, i, find) ==
    \A j \in 1..(i - 1) :
        SubSeq(old, j, j + Len(find) - 1) = find
            => \E k \in j..(i - 1) : old[k] = NL

(* C35: apply_single_replacement changes only the first occurrence of the *)
(* find text on one line: every other line is unchanged and the line      *)
(* terminators, a trailing newline at the end of the file included, are   *)
(* preserved.                                                             *)
C35_OnlyOneOccurrenceChanges ==
    (call_pc = "returned" /\ call_result.ok) =>
        \E i \in 1..Len(call_args.content) :
            /\ ReplacedAt(call_args.content, call_result.content, i,
                          call_args.replacement.find,
                          call_args.replacement.replace)
            /\ FirstOnItsLine(call_args.content, i, call_args.replacement.find)

(* C34: the compile-error excerpt that fix_mutation_prompt puts into the  *)
(* prompt is, for an error longer than the limit, the final portion of    *)
(* the compiler output and not its beginning.                             *)
C34_ExcerptIsTail ==
    (call_pc = "returned" /\ Len(call_args.compile_error) > PromptErrorLimit)
        => \E k \in 1..Len(call_args.compile_error) :
              call_result = SubSeq(call_args.compile_error, k,
                                   Len(call_args.compile_error))

\* The lines of `old` that differ in `new`.
ChangedLines(old, new) ==
    {k \in 1..Len(Lines(old)) :
        k > Len(Lines(new)) \/ Lines(old)[k] # Lines(new)[k]}

(* C39: when the executor applies a replacement returned by               *)
(* analyze_and_generate_mutations to the same unmodified content, the     *)
(* line it modifies is the line recorded in the replacement's line_number.*)
C39_RecordedLineIsModified ==
    call_pc = "returned" =>
        /\ call_result[2].ok
        /\ ChangedLines(call_args.code, call_result[2].content)
               = {call_result[1].line_number}

\* Worker w takes a task from the queue in this step.
BeginsTask(w) == w_pc[w] = "recv" /\ w_pc'[w] = "generate"

(* C32: once the stop flag is set no further work is begun; for the       *)
(* workers of a fan-out stage: in no step taken while should_stop is set  *)
(* does a worker receive a further task from the queue.                   *)
C32_NoTaskBegunAfterStop ==
    [][should_stop => \A w \in Workers : ~BeginsTask(w)]_vars

\* The loop of Daemon::run starts a manually triggered cycle in this step.
TriggeredCycleStarts ==
    d_pc # "cycle" /\ d_pc' = "cycle" /\ cycle_kind' = "manual"

(* C36: a trigger_scan request is not lost: the flag, once set, stays set  *)
(* (further requests leave it set) until the loop consumes it; the only   *)
(* step that clears it starts a triggered cycle, and every triggered      *)
(* cycle starts by clearing it, so the requests made before one           *)
(* consumption give one triggered cycle.                                  *)
C36_TriggerConsumedOnce ==
    [][/\ (trigger_scan /\ ~trigger_scan') => TriggeredCycleStarts
       /\ TriggeredCycleStarts => (trigger_scan /\ ~trigger_scan')]_vars

\* A triggered cycle has just begun, a scheduled one having run before
\* it: the request was made while that cycle ran or slept.
C36_Witness ==
    /\ d_pc = "cycle"
    /\ cycle_kind = "manual"
    /\ p_pc = "p_start"
    /\ ~trigger_scan
    /\ prior_status = "Processing"

(* C33: in a fan-out stage whose workers share one queue, a task is       *)
(* received by one worker only and tasks are received in the order of     *)
(* their enqueueing: the worker that receives takes the task enqueued     *)
(* first among those not yet received, the task leaves the queue, no      *)
(* other worker holds it, and every task still queued or still to be      *)
(* sent belongs to a later file of the stage's list.                      *)
C33_OneReceiverInOrder ==
    [][\A w \in Workers :
          BeginsTask(w) =>
              /\ w_task'[w] = Head(queue)
              /\ queue' = Tail(queue)
              /\ \A v \in Workers \ {w} :
                    /\ w_task'[v] = w_task[v]
                    /\ w_task'[v].path # w_task'[w].path
              /\ \A i \in 1..Len(queue') : queue'[i].path > w_task'[w].path
              /\ file_idx > w_task'[w].path]_vars

\* Two workers hold one task each, the second worker the one sent first.
C33_Witness ==
    /\ Len(w_task) = 2
    /\ w_pc[1] = "generate" /\ w_task[1].path = 2
    /\ w_pc[2] = "generate" /\ w_task[2].path = 1

\* The store holds a row of this cycle for file p with its current hash.
StoredInCycle(p) ==
    \E k \in (Len(mrows0) + 1)..Len(mutation_rows) :
        mutation_rows[k].file_path = p /\ mutation_rows[k].content_hash = "h1"

(* C37: rows stored for a file content mean that every mutation generated *)
(* for it was executed: whenever the loop over a file's mutations is left *)
(* with a row of the file and its hash stored in this cycle, none of the  *)
(* generated mutations is left unexecuted.                                *)
C37_RowsOnlyForFullyTestedFile ==
    [][(/\ m_pc = "mutation_loop"
        /\ m_pc' = "file_loop"
        /\ StoredInCycle(m_files[m_idx])) => m_left = 0]_vars

\* The rows the stage has stored in this cycle for file path p.
RowsOfCycle(p) ==
    {k \in (Len(rows0) + 1)..Len(analysis_rows) :
        analysis_rows[k].file_path = p /\ analysis_rows[k].analysis_type = StageType}

(* C38: within one cycle a per-file stage issues at most one LLM call and *)
(* stores at most one row for each file path, also when the file is       *)
(* listed under more than one project root.                               *)
C38_OneCallAndRowPerFile ==
    \A k \in 1..Len(file_data) :
        /\ llm_calls[k] <= 1
        /\ Cardinality(RowsOfCycle(file_data[k].path)) <= 1

====
